---- MODULE Spec2Model ----
(***************************************************************************)
(* Rate-gated sync engine of the feed analyzer: the sliding-window         *)
(* RateLimiter (src/api/rate-limiter.ts), the SyncState store              *)
(* (src/db/sync-state.ts), the four sync stages and the orchestrator       *)
(* (src/background/*.ts).                                                  *)
(*                                                                         *)
(* Scheduling model: one JavaScript event loop.  Code between two awaits   *)
(* runs atomically; every await of a timer, a network call or an IndexedDB *)
(* request is a point where other logical tasks may run.                   *)
(***************************************************************************)
EXTENDS Integers, Sequences, FiniteSets, TLC

VARIABLES
    now,              \* Date.now(), in scaled milliseconds
    requestTimes,     \* RateLimiter.requestTimes
    lastRequestTime,  \* RateLimiter.lastRequestTime
    waiter,           \* per caller of waitForSlot(): position, captured now, timer
    grants,           \* history: every time pushed by waitForSlot(), in order
    session,          \* whether getSession() finds a session (getCurrentDid() # null)
    remote,           \* what the Remote API knows: [accounts, uris]
    syncState,        \* IndexedDB store syncState: key -> SyncState row
    profiles,         \* IndexedDB store profiles: did -> StoredProfile
    posts,            \* IndexedDB store posts: uri -> StoredPost
    engagements,      \* IndexedDB store engagements: id -> StoredEngagement
    run,              \* per run: position and locals of the orchestrator and its stage
    feed,             \* per run and account: the syncAuthorFeed() task of the batch
    interactions,     \* IndexedDB store interactions: id -> StoredInteraction
    cachedAnalytics,  \* IndexedDB store cachedAnalytics: <<>> or the row 'current'
    reader,           \* per caller of getAnalytics(): position, locals, result
    calc              \* the last call of an analytics function: arguments and result

rlVars == <<requestTimes, lastRequestTime, waiter, grants>>

storeVars == <<syncState, profiles, posts, engagements>>

analyticsVars == <<interactions, cachedAnalytics, reader, calc>>

syncVars == <<session, remote, analyticsVars, storeVars, run, feed>>

vars == <<now, rlVars, syncVars>>

(***************************************************************************)
(* Time                                                                    *)
(***************************************************************************)
\* Date.now() at start-up is far from 0 (lastRequestTime starts at 0).
StartTime == 8

\* last clock value explored by the rate limiter specification
RLMaxTime == 14

(***************************************************************************)
(* RateLimiter                                                             *)
(***************************************************************************)
\* RateLimiterConfig, scaled from DEFAULT_RATE_LIMIT_CONFIG (2500, 300000, 50)
maxRequests == 2
windowMs == 4
minDelayMs == 2

\* number of logically concurrent callers of waitForSlot()
NumCallers == 3
\* total number of waitForSlot() calls explored
MaxCalls == 4

Callers == 1..NumCallers

\* requestTimes.filter((t) => now - t < windowMs)
Prune(times, t0) ==
    LET Keep(t) == t0 - t < windowMs
    IN  SelectSeq(times, Keep)

IdleWaiter == [pc |-> "idle", now |-> 0, wake |-> 0]

\* a waitForSlot() that never drops a timestamp from the window: once the
\* window is full the caller re-evaluates without end
WaitForSlotNeverExpires(c) ==
    IF Len(requestTimes) >= maxRequests
    THEN /\ waiter' = [waiter EXCEPT ![c] =
                          [pc |-> "sleepQuota", now |-> now, wake |-> now]]
         /\ UNCHANGED <<requestTimes, lastRequestTime, grants>>
    ELSE /\ requestTimes' = Append(requestTimes, now)
         /\ lastRequestTime' = now
         /\ grants' = Append(grants, now)
         /\ waiter' = [waiter EXCEPT ![c] = IdleWaiter]

\* body of waitForSlot() from its first line to its first await or its return,
\* run at clock value now by caller c
WaitForSlotBody(c) ==
    LET pruned == Prune(requestTimes, now)
        atLimit == Len(pruned) >= maxRequests
        waitTime == IF atLimit THEN pruned[1] + windowMs - now ELSE 0
        timeSinceLastRequest == now - lastRequestTime
    IN  IF atLimit /\ waitTime > 0
        THEN /\ requestTimes' = pruned
             /\ waiter' = [waiter EXCEPT ![c] =
                              [pc |-> "sleepQuota", now |-> now, wake |-> now + waitTime]]
             /\ UNCHANGED <<lastRequestTime, grants>>
        ELSE IF timeSinceLastRequest < minDelayMs
        THEN /\ requestTimes' = pruned
             /\ waiter' = [waiter EXCEPT ![c] =
                              [pc |-> "sleepDelay", now |-> now,
                               wake |-> now + (minDelayMs - timeSinceLastRequest)]]
             /\ UNCHANGED <<lastRequestTime, grants>>
        ELSE /\ requestTimes' = Append(pruned, now)
             /\ lastRequestTime' = now
             /\ grants' = Append(grants, now)
             /\ waiter' = [waiter EXCEPT ![c] = IdleWaiter]

InFlight == {c \in Callers : waiter[c].pc # "idle"}

\* a caller enters waitForSlot()
CallWaitForSlot(c) ==
    /\ waiter[c].pc = "idle"
    /\ Len(grants) + Cardinality(InFlight) < MaxCalls
    /\ WaitForSlotBody(c)
    /\ UNCHANGED <<now, syncVars>>

\* the timer of `await this.sleep(waitTime)` fired: return this.waitForSlot()
WakeFromQuotaSleep(c) ==
    /\ waiter[c].pc = "sleepQuota"
    /\ now >= waiter[c].wake
    /\ WaitForSlotBody(c)
    /\ UNCHANGED <<now, syncVars>>

\* the timer of the minimum-delay sleep fired: record the request
RecordAfterDelay(c) ==
    /\ requestTimes' = Append(requestTimes, now)
    /\ lastRequestTime' = now
    /\ grants' = Append(grants, now)
    /\ waiter' = [waiter EXCEPT ![c] = IdleWaiter]

WakeFromDelaySleep(c) ==
    /\ waiter[c].pc = "sleepDelay"
    /\ now >= waiter[c].wake
    /\ RecordAfterDelay(c)
    /\ UNCHANGED <<now, syncVars>>

TickRL ==
    /\ now < RLMaxTime
    /\ now' = now + 1
    /\ UNCHANGED <<rlVars, syncVars>>

\* the clock keeps advancing while a sleeping caller's timer is still pending
TickUntilWake ==
    /\ now >= RLMaxTime
    /\ \E c \in InFlight : now < waiter[c].wake
    /\ now' = now + 1
    /\ UNCHANGED <<rlVars, syncVars>>

(***************************************************************************)
(* Remote API universe                                                     *)
(***************************************************************************)
\* accounts other than the authenticated user; Me is the authenticated user
NumAccounts == 3
\* items per response page, pages per cursor-following loop
MaxPageLen == 1
MaxPages == 2
\* last clock value explored by the sync specifications
SyncMaxTime == 9

Me == 0
Accounts == 1..NumAccounts

\* post.record.createdAt of a post, parsed by new Date(...).getTime():
\* one post older than every cutoff, one between the 7-day and the 1-day
\* cutoff, the others recent
PostCreatedAt(u) == IF u = 1 THEN 1 ELSE IF u = 2 THEN StartTime - 1 ELSE StartTime

\* post.author.did
PostAuthor(u) == u % 3

\* post.record.embed.record.uri when the embed is app.bsky.embed.record, else 0
PostQuotedUri(u) == IF u = 2 THEN 1 ELSE 0

\* 24 * 60 * 60 * 1000, scaled
DayMs == 1

\* sequences without repetition over S, of length at most n
RECURSIVE SeqsUpTo(_, _)
SeqsUpTo(S, n) ==
    IF n = 0 THEN {<<>>}
    ELSE LET shorter == SeqsUpTo(S, n - 1)
         IN  shorter \cup
             {Append(q, x) : q \in {p \in shorter : Len(p) = n - 1},
                             x \in S} 

Distinct(q) == \A i, j \in 1..Len(q) : i # j => q[i] # q[j]

Pages(S) == {q \in SeqsUpTo(S, MaxPageLen) : Distinct(q)}

\* thread.replies of getPostThread: reply posts, some of them not
\* app.bsky.feed.defs#threadViewPost (not found or blocked)
ReplyPages(S) ==
    {<<>>} \cup {<<[type |-> t, uri |-> u]>> :
                    t \in {"threadViewPost", "notFoundPost"}, u \in S}

(***************************************************************************)
(* Errors                                                                  *)
(***************************************************************************)
NoError == [name |-> "none", message |-> ""]
\* throw new Error('Not authenticated')
NotAuthenticated == [name |-> "Error", message |-> "Not authenticated"]
\* what publicApiRequest() and fetch() throw
ApiFailures ==
    { [name |-> "ApiError", message |-> "API error: 500"],
      [name |-> "ApiError", message |-> "API error: 401"],
      [name |-> "TypeError", message |-> "Failed to fetch"] }
\* what the IndexedDB helpers reject with
PutFailed == [name |-> "Error", message |-> "Failed to put: undefined"]
GetFailed == [name |-> "Error", message |-> "Failed to get: undefined"]

(***************************************************************************)
(* SyncState store                                                         *)
(***************************************************************************)
FOLLOWS == "follows"
FOLLOWERS == "followers"
TIMELINE == "timeline"
MY_POSTS == "my-posts"
SYNC_KEYS == {FOLLOWS, FOLLOWERS, TIMELINE, MY_POSTS}

\* undefined, for a string-valued and for a number-valued field
UndefStr == "undefined"
UndefNum == -1

\* a Partial<Omit<SyncState, 'key'>> with nothing set
EmptyUpdate ==
    [lastCursor |-> UndefStr, lastSyncAt |-> UndefNum, itemsProcessed |-> UndefNum,
     status |-> UndefStr, error |-> UndefStr]

EmptyRow ==
    [lastCursor |-> UndefStr, lastSyncAt |-> 0, itemsProcessed |-> 0,
     status |-> "idle", error |-> UndefStr]

\* getSyncState(key): <<>> for undefined, <<row>> otherwise
GetSyncState(key) == IF key \in DOMAIN syncState THEN <<syncState[key]>> ELSE <<>>

\* the row updateSyncState() builds from the row it read and the update
UpdatedRow(existing, update) ==
    LET old == IF existing = <<>> THEN EmptyRow ELSE existing[1]
    IN  [lastCursor |-> IF update.lastCursor # UndefStr
                        THEN update.lastCursor ELSE old.lastCursor,
         lastSyncAt |-> IF update.lastSyncAt # UndefNum
                        THEN update.lastSyncAt ELSE old.lastSyncAt,
         itemsProcessed |-> IF update.itemsProcessed # UndefNum
                            THEN update.itemsProcessed ELSE old.itemsProcessed,
         status |-> IF update.status # UndefStr THEN update.status ELSE old.status,
         error |-> update.error]

\* a startSync that leaves the status idle
StartUpdateIdle == [EmptyUpdate EXCEPT !.status = "idle"]

\* startSync(key)
StartUpdate == [EmptyUpdate EXCEPT !.status = "syncing"]

\* completeSync(key, cursor, itemsProcessed), existing read by completeSync itself
CompleteUpdate(existing, cursor, itemsProcessed, t) ==
    LET old == IF existing = <<>> THEN EmptyRow ELSE existing[1]
    IN  [status |-> "idle",
         lastSyncAt |-> t,
         lastCursor |-> IF cursor # UndefStr THEN cursor
                        ELSE IF existing = <<>> THEN UndefStr ELSE old.lastCursor,
         itemsProcessed |-> IF itemsProcessed # UndefNum THEN itemsProcessed
                            ELSE IF existing = <<>> THEN UndefNum
                            ELSE old.itemsProcessed,
         error |-> UndefStr]

\* a failSync that resets the time of the last sync
FailUpdateResets(message) ==
    [EmptyUpdate EXCEPT !.status = "error", !.error = message, !.lastSyncAt = 0]

\* a failSync that records the status without the message
FailUpdateNoMessage(message) == [EmptyUpdate EXCEPT !.status = "error"]

\* failSync(key, error)
FailUpdate(message) == [EmptyUpdate EXCEPT !.status = "error", !.error = message]

\* put(STORE, item) on a keyed store
Put(store, key, item) == (key :> item) @@ store

\* putBatch(STORE, items): one put per item, in order, keys[k] the key of items[k]
RECURSIVE PutBatch(_, _, _)
PutBatch(store, keys, items) ==
    IF items = <<>> THEN store
    ELSE PutBatch(Put(store, Head(keys), Head(items)), Tail(keys), Tail(items))

(***************************************************************************)
(* Runs of the orchestrator and of the stage functions                     *)
(***************************************************************************)
\* one run at a time is triggered in these specifications
Runs == {1}

\* DEFAULT_SYNC_OPTIONS
DefaultPostsWindow == 7
DefaultEngagementsWindow == 7
DEFAULT_SYNC_OPTIONS ==
    [includeFollows |-> TRUE, includeFollowers |-> TRUE, includePosts |-> TRUE,
     includeEngagements |-> TRUE, postsWindow |-> DefaultPostsWindow,
     engagementsWindow |-> DefaultEngagementsWindow]

\* the SyncOptions a caller of runFullSync() may pass, merged over the defaults
SyncOptions ==
    [includeFollows : BOOLEAN, includeFollowers : BOOLEAN, includePosts : BOOLEAN,
     includeEngagements : BOOLEAN, postsWindow : {DefaultPostsWindow},
     engagementsWindow : {DefaultEngagementsWindow}]

\* daysBack of runIncrementalSync(): syncPosts(1), syncEngagements(1)
IncrementalDaysBack == 1

\* stage order of runFullSync(): 1 follows, 2 followers, 3 posts, 4 engagements
StageKey(j) ==
    CASE j = 1 -> FOLLOWS [] j = 2 -> FOLLOWERS [] j = 3 -> TIMELINE [] OTHER -> MY_POSTS

\* locals of one run; raised, raisedAt, called, subFailed, subCount and sawOld
\* are history variables: the error a stage threw and the call that threw it,
\* the stage keys that issued an API request, whether the last sub-resource
\* fetch of syncEngagements() threw, engagementCount when the current
\* sub-resource was requested, whether an item older than the cutoff was met
\* doneAt is a history variable too: the Date.now() of the completeSync() of
\* the run's last completed stage
\* history of a fetch-all loop: the pages received so far, the sum of their
\* item counts, and whether the last one carried a cursor
NoFetch == [pages |-> 0, items |-> 0, cursor |-> FALSE]

InitRun ==
    [pc |-> "none", kind |-> "none", opts |-> DEFAULT_SYNC_OPTIONS, stage |-> 0,
     daysBack |-> 0, upd |-> EmptyUpdate, row |-> EmptyRow, err |-> NoError,
     acc |-> <<>>, plist |-> <<>>, count |-> 0, cutoffTime |-> 0,
     following |-> <<>>, i |-> 0, pages |-> 0, lpages |-> 0, page |-> <<>>,
     cursor |-> FALSE, uri |-> 0,
     raised |-> NoError, raisedAt |-> "none", called |-> {}, subFailed |-> FALSE,
     subCount |-> 0, sawOld |-> FALSE, fetched |-> NoFetch, doneAt |-> 0]

\* locals that are dead once a stage has left its body
ClearLocals(rn) ==
    [rn EXCEPT !.acc = <<>>, !.plist = <<>>, !.following = <<>>, !.i = 0,
               !.pages = 0, !.lpages = 0, !.page = <<>>, !.cursor = FALSE,
               !.uri = 0, !.upd = EmptyUpdate, !.row = EmptyRow, !.subCount = 0,
               !.fetched = NoFetch]

\* whether the orchestrator runs stage j in this run
Included(rn, j) ==
    CASE rn.kind = "full" ->
            (CASE j = 1 -> rn.opts.includeFollows
               [] j = 2 -> rn.opts.includeFollowers
               [] j = 3 -> rn.opts.includePosts
               [] OTHER -> rn.opts.includeEngagements)
      [] rn.kind = "incr" -> j \in {3, 4}
      [] OTHER -> FALSE

\* an incremental run that passes the default windows to its stages
StageDaysBackDefaults(rn) ==
    CASE rn.kind \in {"full", "incr"} ->
            (IF rn.stage = 3 THEN rn.opts.postsWindow ELSE rn.opts.engagementsWindow)
      [] OTHER -> rn.daysBack

\* daysBack the stage is called with
StageDaysBack(rn) ==
    CASE rn.kind = "full" ->
            (IF rn.stage = 3 THEN rn.opts.postsWindow ELSE rn.opts.engagementsWindow)
      [] rn.kind = "incr" -> IncrementalDaysBack
      [] OTHER -> rn.daysBack

\* an error leaves the stage function and the orchestrator: the run rejects
Reject(rn, e) == [ClearLocals(rn) EXCEPT !.pc = "rejected", !.err = e]

\* the stage function is called: the getCurrentDid() check, then await startSync(key)
EnterStage(rn, j) ==
    IF j # 3 /\ ~session
    THEN [Reject(rn, NotAuthenticated) EXCEPT
             !.stage = j, !.raised = NotAuthenticated, !.raisedAt = "getCurrentDid"]
    ELSE [rn EXCEPT !.pc = "startSync", !.stage = j]

\* an orchestrator that runs the included stages last first
ProceedLastFirst(rn, i) ==
    LET later == {j \in 1..4 : Included(rn, j) /\ (rn.stage = 0 \/ j < rn.stage)}
    IN  IF later = {}
        THEN [ClearLocals(rn) EXCEPT !.pc = "resolved"]
        ELSE EnterStage(ClearLocals(rn), CHOOSE j \in later : \A k \in later : j >= k)

\* the orchestrator, from the if of stage i on, up to its next await
Proceed(rn, i) ==
    LET later == {j \in i..4 : Included(rn, j)}
    IN  IF later = {}
        THEN [ClearLocals(rn) EXCEPT !.pc = "resolved"]
        ELSE EnterStage(ClearLocals(rn), CHOOSE j \in later : \A k \in later : j <= k)

\* catch (error) of a stage function: message, await failSync(key, message)
CatchInStage(rn, e, at) ==
    [ClearLocals(rn) EXCEPT !.pc = "failSync", !.err = e, !.raised = e, !.raisedAt = at]

\* an API request of the current stage is issued and awaited at position p
AwaitApi(rn, p) == [rn EXCEPT !.pc = p, !.called = @ \cup {StageKey(rn.stage)}]

\* the body of the stage after `await startSync(key)`, up to its first await
BeginBody(rn, t) ==
    CASE rn.stage = 1 -> AwaitApi(rn, "getFollows")
      [] rn.stage = 2 -> AwaitApi(rn, "getFollowers")
      [] rn.stage = 3 -> [rn EXCEPT !.pc = "getAllProfiles"]
      [] OTHER -> AwaitApi([rn EXCEPT !.count = 0,
                                      !.cutoffTime = t - StageDaysBack(rn) * DayMs],
                           "getAuthorFeed")

\* limiter.getStats() prunes the limiter's history
GetStats == requestTimes' = Prune(requestTimes, now)

NoOtherRun(r) == \A q \in Runs \ {r} : run[q].pc = "none"

\* runFullSync(options), up to its first await
RunFullSync(r) ==
    /\ run[r].pc = "none"
    /\ NoOtherRun(r)
    /\ \E o \in SyncOptions :
          run' = [run EXCEPT ![r] = Proceed([InitRun EXCEPT !.kind = "full", !.opts = o], 1)]
    /\ GetStats
    /\ UNCHANGED <<now, lastRequestTime, waiter, grants, session, remote, analyticsVars, storeVars, feed>>

\* runIncrementalSync(), up to its first await
RunIncrementalSync(r) ==
    /\ run[r].pc = "none"
    /\ NoOtherRun(r)
    /\ run' = [run EXCEPT ![r] = Proceed([InitRun EXCEPT !.kind = "incr"], 3)]
    /\ UNCHANGED <<now, rlVars, session, remote, analyticsVars, storeVars, feed>>

\* startSync -> updateSyncState: existing = await getSyncState(key)
StartSyncRead(r) ==
    /\ run[r].pc = "startSync"
    /\ run' = [run EXCEPT ![r] =
                 [@ EXCEPT !.pc = "startSync.put",
                           !.row = UpdatedRow(GetSyncState(StageKey(run[r].stage)),
                                              StartUpdate)]]
    /\ UNCHANGED <<now, rlVars, session, remote, analyticsVars, storeVars, feed>>

\* startSync -> updateSyncState: saveSyncState(updated); the stage body begins
StartSyncPut(r) ==
    /\ run[r].pc = "startSync.put"
    /\ syncState' = Put(syncState, StageKey(run[r].stage), run[r].row)
    /\ run' = [run EXCEPT ![r] = BeginBody(@, now)]
    /\ UNCHANGED <<now, rlVars, session, remote, analyticsVars, profiles, posts, engagements, feed>>

\* completeSync: existing = await getSyncState(key); the update, with Date.now()
CompleteSyncRead(r) ==
    /\ run[r].pc = "completeSync"
    /\ run' = [run EXCEPT ![r] =
                 [@ EXCEPT !.pc = "completeSync.update",
                           !.upd = CompleteUpdate(GetSyncState(StageKey(run[r].stage)),
                                                  UndefStr, run[r].count, now)]]
    /\ UNCHANGED <<now, rlVars, session, remote, analyticsVars, storeVars, feed>>

\* completeSync -> updateSyncState: existing = await getSyncState(key)
CompleteSyncUpdate(r) ==
    /\ run[r].pc = "completeSync.update"
    /\ run' = [run EXCEPT ![r] =
                 [@ EXCEPT !.pc = "completeSync.put",
                           !.row = UpdatedRow(GetSyncState(StageKey(run[r].stage)),
                                              run[r].upd)]]
    /\ UNCHANGED <<now, rlVars, session, remote, analyticsVars, storeVars, feed>>

\* the stage returns its count to its caller
ReturnFromStage(rn) == Proceed(rn, rn.stage + 1)

\* completeSync -> updateSyncState: saveSyncState(updated) succeeds; the stage
\* returns, and the orchestrator goes on to its next await or to its end
CompleteSyncPut(r) ==
    /\ run[r].pc = "completeSync.put"
    /\ syncState' = Put(syncState, StageKey(run[r].stage), run[r].row)
    /\ run' = [run EXCEPT ![r] =
                 ReturnFromStage([@ EXCEPT !.doneAt = run[r].upd.lastSyncAt])]
    /\ IF run'[r].pc = "resolved" /\ run[r].kind = "full"
       THEN GetStats ELSE UNCHANGED requestTimes
    /\ UNCHANGED <<now, lastRequestTime, waiter, grants, session, remote,
                   analyticsVars, profiles, posts, engagements, feed>>

\* completeSync rejects (the IndexedDB request fails): caught by the stage
CompleteSyncFails(r) ==
    /\ run[r].pc = "completeSync.put"
    /\ run' = [run EXCEPT ![r] = CatchInStage(@, PutFailed, "completeSync")]
    /\ UNCHANGED <<now, rlVars, session, remote, analyticsVars, storeVars, feed>>

\* failSync -> updateSyncState: existing = await getSyncState(key)
FailSyncRead(r) ==
    /\ run[r].pc = "failSync"
    /\ run' = [run EXCEPT ![r] =
                 [@ EXCEPT !.pc = "failSync.put",
                           !.row = UpdatedRow(GetSyncState(StageKey(run[r].stage)),
                                              FailUpdate(run[r].err.message))]]
    /\ UNCHANGED <<now, rlVars, session, remote, analyticsVars, storeVars, feed>>

\* an orchestrator whose catch swallows the error of a stage and goes on
ThrowSwallowed(rn) == Proceed(rn, rn.stage + 1)

\* `throw error` at the end of the catch of a stage; the catch of runFullSync()
\* rethrows it, runIncrementalSync() has no catch
ThrowFromStage(rn) == Reject(rn, rn.err)

\* failSync -> updateSyncState: saveSyncState(updated); then `throw error`
FailSyncPut(r) ==
    /\ run[r].pc = "failSync.put"
    /\ syncState' = Put(syncState, StageKey(run[r].stage), run[r].row)
    /\ run' = [run EXCEPT ![r] = ThrowFromStage(@)]
    /\ UNCHANGED <<now, rlVars, session, remote, analyticsVars, profiles, posts, engagements, feed>>

(***************************************************************************)
(* Stage 1 and 2: syncFollows(), syncFollowers()                           *)
(***************************************************************************)
\* follows.map(...) of syncFollows(): the StoredProfile written for each follow
FollowProfiles(dids, t) ==
    [k \in 1..Len(dids) |->
        [did |-> dids[k], youFollow |-> TRUE, followsYou |-> FALSE,
         isMutual |-> FALSE, lastUpdated |-> t]]

\* reading a property of an object: undefined when the object has no such field
Read(rec, name, undefined) == IF name \in DOMAIN rec THEN rec[name] ELSE undefined

\* getProfile(did) of the profiles store: <<>> for undefined
GetProfile(did) == IF did \in DOMAIN profiles THEN <<profiles[did]>> ELSE <<>>

\* a merge that keeps the stored isMutual
MergeProfileKeepsMutual(existing, update, t) ==
    IF existing = <<>>
    THEN [did |-> update.did, followsYou |-> Read(update, "followsYou", FALSE),
          youFollow |-> Read(update, "youFollow", FALSE), isMutual |-> FALSE,
          lastUpdated |-> t]
    ELSE [lastUpdated |-> t] @@ update @@ existing[1]

\* mergeProfile(existing, update); update holds only the fields that are given
MergeProfile(existing, update, t) ==
    IF existing = <<>>
    THEN LET followsYou == IF "followsYou" \in DOMAIN update
                           THEN update.followsYou ELSE FALSE
             youFollow == IF "youFollow" \in DOMAIN update
                          THEN update.youFollow ELSE FALSE
         IN  [did |-> update.did, followsYou |-> followsYou,
              youFollow |-> youFollow, isMutual |-> followsYou /\ youFollow,
              lastUpdated |-> t]
    ELSE LET merged == [lastUpdated |-> t] @@ update @@ existing[1]
         IN  [merged EXCEPT !.isMutual = merged.followsYou /\ merged.youFollow]

\* followers.map(async ...) of syncFollowers()
FollowerProfiles(dids, t) ==
    [k \in 1..Len(dids) |->
        MergeProfile(GetProfile(dids[k]), [did |-> dids[k], followsYou |-> TRUE], t)]

DidsOf(plist) == [k \in 1..Len(plist) |-> plist[k].did]

\* one page of a do ... while (cursor) loop arrived: push, then the next request
\* or the end of the loop at position done
FetchedPage(rn, pg, cur) ==
    [rn EXCEPT !.fetched = [pages |-> @.pages + 1, items |-> @.items + Len(pg),
                            cursor |-> cur]]

\* a loop body that keeps only the last page
PageArrivedLastOnly(rn, pg, cur, done) ==
    IF cur
    THEN [FetchedPage(rn, pg, cur) EXCEPT !.acc = pg, !.pages = @ + 1]
    ELSE [FetchedPage(rn, pg, cur) EXCEPT !.acc = pg, !.pages = 0, !.pc = done]

PageArrived(rn, pg, cur, done) ==
    IF cur
    THEN [FetchedPage(rn, pg, cur) EXCEPT !.acc = @ \o pg, !.pages = @ + 1]
    ELSE [FetchedPage(rn, pg, cur) EXCEPT !.acc = @ \o pg, !.pages = 0, !.pc = done]

\* getAllFollows(): the response of getFollows(actor, 100, cursor)
FollowsPageResponse(r) ==
    /\ run[r].pc = "getFollows"
    /\ \E pg \in Pages(remote.accounts), cur \in BOOLEAN :
          /\ cur => run[r].pages + 1 < MaxPages
          /\ LET rn == PageArrived(run[r], pg, cur, "saveProfiles")
             IN  run' = [run EXCEPT ![r] =
                           IF cur THEN rn
                           ELSE [rn EXCEPT !.plist = FollowProfiles(rn.acc, now)]]
    /\ UNCHANGED <<now, rlVars, session, remote, analyticsVars, storeVars, feed>>

\* getFollows() throws: getAllFollows() throws into the catch of syncFollows()
FollowsPageFails(r) ==
    /\ run[r].pc = "getFollows"
    /\ \E e \in ApiFailures :
          run' = [run EXCEPT ![r] = CatchInStage(@, e, "getAllFollows")]
    /\ UNCHANGED <<now, rlVars, session, remote, analyticsVars, storeVars, feed>>

\* getAllFollowers(): the response of getFollowers(actor, 100, cursor)
FollowersPageResponse(r) ==
    /\ run[r].pc = "getFollowers"
    /\ \E pg \in Pages(remote.accounts), cur \in BOOLEAN :
          /\ cur => run[r].pages + 1 < MaxPages
          /\ run' = [run EXCEPT ![r] = PageArrived(@, pg, cur, "getProfile")]
    /\ UNCHANGED <<now, rlVars, session, remote, analyticsVars, storeVars, feed>>

FollowersPageFails(r) ==
    /\ run[r].pc = "getFollowers"
    /\ \E e \in ApiFailures :
          run' = [run EXCEPT ![r] = CatchInStage(@, e, "getAllFollowers")]
    /\ UNCHANGED <<now, rlVars, session, remote, analyticsVars, storeVars, feed>>

\* Promise.all(followers.map(... getProfile ... mergeProfile ...)) resolved
MergeFollowers(r) ==
    /\ run[r].pc = "getProfile"
    /\ run' = [run EXCEPT ![r] =
                 [@ EXCEPT !.pc = "saveProfiles",
                           !.plist = FollowerProfiles(run[r].acc, now)]]
    /\ UNCHANGED <<now, rlVars, session, remote, analyticsVars, storeVars, feed>>

\* await saveProfiles(list) resolved; next is completeSync(key, undefined, length)
SaveProfiles(r) ==
    /\ run[r].pc = "saveProfiles"
    /\ profiles' = PutBatch(profiles, DidsOf(run[r].plist), run[r].plist)
    /\ run' = [run EXCEPT ![r] =
                 [ClearLocals(@) EXCEPT !.pc = "completeSync",
                                        !.count = Len(run[r].acc)]]
    /\ UNCHANGED <<now, rlVars, session, remote, analyticsVars, syncState, posts, engagements, feed>>

\* await saveProfiles(list) rejected: a put of the batch failed
SaveProfilesFails(r) ==
    /\ run[r].pc = "saveProfiles"
    /\ run[r].plist # <<>>
    /\ run' = [run EXCEPT ![r] = CatchInStage(@, PutFailed, "saveProfiles")]
    /\ UNCHANGED <<now, rlVars, session, remote, analyticsVars, storeVars, feed>>

(***************************************************************************)
(* Stage 3: syncPosts(daysBack) and its syncAuthorFeed() tasks             *)
(***************************************************************************)
\* BATCH_SIZE of sync-posts.ts, scaled from 10
BATCH_SIZE == 2

UndefDid == -1
UndefUri == 0

NoPost ==
    [uri |-> UndefUri, authorDid |-> UndefDid, createdAt |-> 0, postType |-> "post",
     repostedByDid |-> UndefDid, quotedUri |-> UndefUri, fetchedAt |-> 0]

\* createPost(uri, cid, author, handle, createdAt, 'post', {...})
CreatePost(u, t) ==
    [uri |-> u, authorDid |-> PostAuthor(u), createdAt |-> PostCreatedAt(u),
     postType |-> "post", repostedByDid |-> UndefDid, quotedUri |-> UndefUri,
     fetchedAt |-> t]

\* feedPost.reason is a reasonRepost: the feed of did lists a post of another author
IsRepost(did, u) == PostAuthor(u) # did

\* the StoredPost syncAuthorFeed(did) builds for one feed item
StoredPostOf(did, u, t) ==
    LET created == CreatePost(u, t)
        reposted == IF IsRepost(did, u)
                    THEN [created EXCEPT !.postType = "repost", !.repostedByDid = did]
                    ELSE created
    IN  IF PostQuotedUri(u) # UndefUri
        THEN [reposted EXCEPT !.postType = "quote", !.quotedUri = PostQuotedUri(u)]
        ELSE reposted

\* locals of one syncAuthorFeed() call; sawOld and dropped are history
\* variables: an item older than the cutoff was met; the items of the page
\* that came after it, which the early return left unexamined
IdleTask ==
    [st |-> "idle", page |-> <<>>, cursor |-> FALSE, pages |-> 0, postsCount |-> 0,
     post |-> NoPost, reason |-> NoError, sawOld |-> FALSE, dropped |-> <<>>]

Settled(task) == task.st \in {"fulfilled", "rejected"}

\* a syncAuthorFeed that never compares createdAt with the cutoff
ProcessFeedNoCutoff(task, did, cutoffTime, t) ==
    IF task.page = <<>>
    THEN IF task.cursor
         THEN [task EXCEPT !.st = "getAuthorFeed", !.pages = @ + 1, !.cursor = FALSE]
         ELSE [task EXCEPT !.st = "fulfilled"]
    ELSE [task EXCEPT !.st = "savePosts", !.page = Tail(@),
                      !.post = StoredPostOf(did, Head(task.page), t)]

\* syncAuthorFeed(did): from the item loop to the next await or the return
ProcessFeed(task, did, cutoffTime, t) ==
    IF task.page = <<>>
    THEN IF task.cursor
         THEN [task EXCEPT !.st = "getAuthorFeed", !.pages = @ + 1, !.cursor = FALSE]
         ELSE [task EXCEPT !.st = "fulfilled"]
    ELSE IF PostCreatedAt(Head(task.page)) < cutoffTime
         THEN [task EXCEPT !.st = "fulfilled", !.page = <<>>, !.sawOld = TRUE,
                           !.dropped = Tail(task.page)]
         ELSE [task EXCEPT !.st = "savePosts", !.page = Tail(@),
                           !.post = StoredPostOf(did, Head(task.page), t)]

\* a set of numbers as the increasing sequence getAll() returns (key order)
SortedSeq(S) ==
    CHOOSE q \in [1..Cardinality(S) -> S] :
        \A i, j \in 1..Cardinality(S) : i < j => q[i] < q[j]

\* following.slice(i, i + BATCH_SIZE)
Batch(rn) ==
    {rn.following[k] : k \in {k \in 1..Len(rn.following) :
                                 rn.i < k /\ k <= rn.i + BATCH_SIZE}}

\* the for loop of syncPosts() at its test: the next batch or completeSync
LoopPosts(rn) ==
    IF rn.i < Len(rn.following)
    THEN AwaitApi(rn, "batch")
    ELSE [ClearLocals(rn) EXCEPT !.pc = "completeSync"]

\* batch.map((profile) => syncAuthorFeed(...)): each task up to its first await
LaunchBatch(rn, tasks) ==
    [a \in Accounts |->
        IF rn.pc = "batch" /\ a \in Batch(rn)
        THEN [IdleTask EXCEPT !.st = "getAuthorFeed"]
        ELSE tasks[a]]

\* await getAllProfiles() resolved: following, cutoffTime, the first batch
GetAllProfilesDone(r) ==
    /\ run[r].pc = "getAllProfiles"
    /\ LET following == SortedSeq({d \in DOMAIN profiles : profiles[d].youFollow})
           rn == LoopPosts([run[r] EXCEPT
                               !.following = following, !.count = 0, !.i = 0,
                               !.cutoffTime = now - StageDaysBack(run[r]) * DayMs])
       IN  /\ run' = [run EXCEPT ![r] = rn]
           /\ feed' = [feed EXCEPT ![r] = LaunchBatch(rn, [a \in Accounts |-> IdleTask])]
    /\ UNCHANGED <<now, rlVars, session, remote, analyticsVars, storeVars>>

\* await getAllProfiles() rejected
GetAllProfilesFails(r) ==
    /\ run[r].pc = "getAllProfiles"
    /\ run' = [run EXCEPT ![r] = CatchInStage(@, GetFailed, "getAllProfiles")]
    /\ UNCHANGED <<now, rlVars, session, remote, analyticsVars, storeVars, feed>>

\* syncAuthorFeed(a): the response of getAuthorFeed(did, 100, cursor)
FeedPageResponse(r, a) ==
    /\ feed[r][a].st = "getAuthorFeed"
    /\ \E pg \in Pages(remote.uris), cur \in BOOLEAN :
          /\ cur => feed[r][a].pages + 1 < MaxPages
          /\ feed' = [feed EXCEPT ![r][a] =
                        ProcessFeed([@ EXCEPT !.page = pg, !.cursor = cur],
                                    a, run[r].cutoffTime, now)]
    /\ UNCHANGED <<now, rlVars, session, remote, analyticsVars, storeVars, run>>

\* the longest response.feed explored where the order inside a page matters
FeedPageLen == 2

\* syncAuthorFeed(a): the response of getAuthorFeed(did, 100, cursor), a page
\* of up to FeedPageLen items in the order the server lists them
FeedLongPageResponse(r, a) ==
    /\ feed[r][a].st = "getAuthorFeed"
    /\ \E pg \in {q \in SeqsUpTo(remote.uris, FeedPageLen) : Distinct(q)} :
          /\ Len(pg) = FeedPageLen
          /\ feed' = [feed EXCEPT ![r][a] =
                        ProcessFeed([@ EXCEPT !.page = pg, !.cursor = FALSE],
                                    a, run[r].cutoffTime, now)]
    /\ UNCHANGED <<now, rlVars, session, remote, analyticsVars, storeVars, run>>

\* syncAuthorFeed(a): getAuthorFeed() throws, the task rejects
FeedPageFails(r, a) ==
    /\ feed[r][a].st = "getAuthorFeed"
    /\ \E e \in ApiFailures :
          feed' = [feed EXCEPT ![r][a] = [@ EXCEPT !.st = "rejected", !.reason = e]]
    /\ UNCHANGED <<now, rlVars, session, remote, analyticsVars, storeVars, run>>

\* syncAuthorFeed(a): await savePosts([storedPost]) resolved; postsCount++
SavePostsDone(r, a) ==
    /\ feed[r][a].st = "savePosts"
    /\ posts' = Put(posts, feed[r][a].post.uri, feed[r][a].post)
    /\ feed' = [feed EXCEPT ![r][a] =
                  ProcessFeed([@ EXCEPT !.postsCount = @ + 1, !.post = NoPost],
                              a, run[r].cutoffTime, now)]
    /\ UNCHANGED <<now, rlVars, session, remote, analyticsVars, syncState, profiles, engagements, run>>

\* syncAuthorFeed(a): await savePosts([storedPost]) rejected, the task rejects
SavePostsFails(r, a) ==
    /\ feed[r][a].st = "savePosts"
    /\ feed' = [feed EXCEPT ![r][a] =
                  [@ EXCEPT !.st = "rejected", !.reason = PutFailed, !.post = NoPost,
                            !.page = <<>>, !.cursor = FALSE]]
    /\ UNCHANGED <<now, rlVars, session, remote, analyticsVars, storeVars, run>>

\* a loop over the results that adds up the count of every task, rejected or not
RECURSIVE SettledSum(_, _)
SettledSum(tasks, batch) ==
    IF batch = {} THEN 0
    ELSE LET a == CHOOSE x \in batch : TRUE
         IN  tasks[a].postsCount + SettledSum(tasks, batch \ {a})

\* the for (const result of results) loop: the values of the fulfilled tasks
RECURSIVE FulfilledSum(_, _)
FulfilledSum(tasks, batch) ==
    IF batch = {} THEN 0
    ELSE LET a == CHOOSE x \in batch : TRUE
         IN  (IF tasks[a].st = "fulfilled" THEN tasks[a].postsCount ELSE 0)
             + FulfilledSum(tasks, batch \ {a})

\* a Promise.race in place of Promise.allSettled
AnySettled(tasks, batch) == \E a \in batch : Settled(tasks[a])

\* whether Promise.allSettled(batch) resolves
AllSettled(tasks, batch) == \A a \in batch : Settled(tasks[a])

\* await Promise.allSettled(batch) resolved: totalPosts, then the next batch
BatchSettled(r) ==
    /\ run[r].pc = "batch"
    /\ AllSettled(feed[r], Batch(run[r]))
    /\ LET rn == LoopPosts([run[r] EXCEPT
                               !.count = @ + FulfilledSum(feed[r], Batch(run[r])),
                               !.i = @ + BATCH_SIZE])
       IN  /\ run' = [run EXCEPT ![r] = rn]
           /\ feed' = [feed EXCEPT ![r] = LaunchBatch(rn, feed[r])]
    /\ UNCHANGED <<now, rlVars, session, remote, analyticsVars, storeVars>>

(***************************************************************************)
(* Stage 4: syncEngagements(daysBack)                                      *)
(***************************************************************************)
\* makeEngagementId(type, fromDid, targetUri)
MakeEngagementId(type, fromDid, targetUri) == <<type, fromDid, targetUri>>

\* createEngagement(type, targetUri, fromDid, fromHandle, theirPostUri)
CreateEngagement(type, targetUri, fromDid, theirPostUri, t) ==
    [type |-> type, targetUri |-> targetUri, fromDid |-> fromDid, createdAt |-> t,
     theirPostUri |-> theirPostUri]

\* likes of getAllLikes(): like.actor.did
LikeEntries(pg) == [k \in 1..Len(pg) |-> [fromDid |-> pg[k], theirPostUri |-> UndefUri]]

\* quotes.posts of getQuotes(): quote.author.did, quote.uri
QuoteEntries(pg) ==
    [k \in 1..Len(pg) |-> [fromDid |-> PostAuthor(pg[k]), theirPostUri |-> pg[k]]]

\* the replies of thread.thread.replies that are threadViewPost
ReplyEntries(replies) ==
    LET IsView(x) == x.type = "threadViewPost"
        views == SelectSeq(replies, IsView)
    IN  [k \in 1..Len(views) |->
            [fromDid |-> PostAuthor(views[k].uri), theirPostUri |-> views[k].uri]]

\* the first k of the awaited recordXReceived() calls of one for loop
RecordReceived(store, type, targetUri, entries, k, t) ==
    PutBatch(store,
             [n \in 1..k |-> MakeEngagementId(type, entries[n].fromDid, targetUri)],
             [n \in 1..k |-> CreateEngagement(type, targetUri, entries[n].fromDid,
                                              entries[n].theirPostUri, t)])

\* a sub-resource of the current post is requested at position p
AwaitSub(rn, p) ==
    AwaitApi([rn EXCEPT !.acc = <<>>, !.lpages = 0, !.subCount = rn.count,
                        !.fetched = NoFetch], p)

\* the catch of one sub-resource: console.error, nothing else
CatchItem(rn) == [rn EXCEPT !.subFailed = TRUE]

\* a response or a record arrived without throwing
NoCatch(rn) == [rn EXCEPT !.subFailed = FALSE]

\* the while/for loops of syncEngagements() at the next feed item, up to the
\* next await
EngLoop(rn) ==
    IF rn.page = <<>>
    THEN IF rn.cursor
         THEN AwaitApi([rn EXCEPT !.pages = @ + 1, !.cursor = FALSE, !.acc = <<>>,
                                  !.uri = 0, !.subCount = 0],
                       "getAuthorFeed")
         ELSE [ClearLocals(rn) EXCEPT !.pc = "completeSync"]
    ELSE IF PostCreatedAt(Head(rn.page)) < rn.cutoffTime
         THEN [ClearLocals(rn) EXCEPT !.pc = "completeSync", !.cursor = rn.cursor,
                                      !.sawOld = TRUE]
         ELSE AwaitSub([rn EXCEPT !.uri = Head(rn.page), !.page = Tail(@)], "getLikes")

\* the response of getAuthorFeed(myDid, 100, cursor)
EngFeedResponse(r) ==
    /\ run[r].pc = "getAuthorFeed"
    /\ \E pg \in Pages(remote.uris), cur \in BOOLEAN :
          /\ cur => run[r].pages + 1 < MaxPages
          /\ run' = [run EXCEPT ![r] =
                       EngLoop([NoCatch(@) EXCEPT !.page = pg, !.cursor = cur])]
    /\ UNCHANGED <<now, rlVars, session, remote, analyticsVars, storeVars, feed>>

\* getAuthorFeed(myDid) throws: the outer catch of syncEngagements()
EngFeedFails(r) ==
    /\ run[r].pc = "getAuthorFeed"
    /\ \E e \in ApiFailures :
          run' = [run EXCEPT ![r] = CatchInStage(@, e, "getAuthorFeed")]
    /\ UNCHANGED <<now, rlVars, session, remote, analyticsVars, storeVars, feed>>

\* a for loop of recordXReceived() calls is next, at position p, or nothing to record
RecordOrSkip(rn, entries, p, skip) ==
    IF entries = <<>> THEN skip ELSE [rn EXCEPT !.pc = p, !.acc = entries, !.lpages = 0]

\* getAllLikes(post.uri): the response of getLikes(uri, 100, cursor)
EngLikesResponse(r) ==
    /\ run[r].pc = "getLikes"
    /\ \E pg \in Pages(remote.accounts), cur \in BOOLEAN :
          /\ cur => run[r].lpages + 1 < MaxPages
          /\ LET likes == run[r].acc \o LikeEntries(pg)
             IN  run' = [run EXCEPT ![r] =
                           IF cur THEN [FetchedPage(NoCatch(@), pg, cur) EXCEPT
                                           !.acc = likes, !.lpages = @ + 1]
                           ELSE RecordOrSkip(FetchedPage(NoCatch(@), pg, cur), likes,
                                             "recordLikes",
                                             AwaitSub(NoCatch(@), "getQuotes"))]
    /\ UNCHANGED <<now, rlVars, session, remote, analyticsVars, storeVars, feed>>

\* a getAllLikes() outside any inner try: its error reaches the outer catch
EngLikesFailsStage(r) ==
    /\ run[r].pc = "getLikes"
    /\ \E e \in ApiFailures :
          run' = [run EXCEPT ![r] = CatchInStage(@, e, "getAllLikes")]
    /\ UNCHANGED <<now, rlVars, session, remote, analyticsVars, storeVars, feed>>

\* getAllLikes() throws: catch, console.error, on to the quotes
EngLikesFails(r) ==
    /\ run[r].pc = "getLikes"
    /\ run' = [run EXCEPT ![r] =
                 AwaitSub(CatchItem(@), "getQuotes")]
    /\ UNCHANGED <<now, rlVars, session, remote, analyticsVars, storeVars, feed>>

\* for (const like of likes) await recordLikeReceived(...); engagementCount++ :
\* the first k records are written, record k + 1 (if any) rejects into the catch
EngRecordLikes(r) ==
    /\ run[r].pc = "recordLikes"
    /\ \E k \in 0..Len(run[r].acc) :
          /\ engagements' = RecordReceived(engagements, "like", run[r].uri,
                                           run[r].acc, k, now)
          /\ run' = [run EXCEPT ![r] =
                       AwaitSub([@ EXCEPT !.count = @ + k], "getQuotes")]
    /\ UNCHANGED <<now, rlVars, session, remote, analyticsVars, syncState, profiles, posts, feed>>

\* the response of getQuotes(post.uri)
EngQuotesResponse(r) ==
    /\ run[r].pc = "getQuotes"
    /\ \E pg \in Pages(remote.uris) :
          run' = [run EXCEPT ![r] =
                    RecordOrSkip(NoCatch(@), QuoteEntries(pg), "recordQuotes",
                                 AwaitSub(NoCatch(@), "getPostThread"))]
    /\ UNCHANGED <<now, rlVars, session, remote, analyticsVars, storeVars, feed>>

\* getQuotes() throws: catch, console.error, on to the replies
EngQuotesFails(r) ==
    /\ run[r].pc = "getQuotes"
    /\ run' = [run EXCEPT ![r] =
                 AwaitSub(CatchItem(@), "getPostThread")]
    /\ UNCHANGED <<now, rlVars, session, remote, analyticsVars, storeVars, feed>>

\* for (const quote of quotes.posts) await recordQuoteReceived(...); count++
EngRecordQuotes(r) ==
    /\ run[r].pc = "recordQuotes"
    /\ \E k \in 0..Len(run[r].acc) :
          /\ engagements' = RecordReceived(engagements, "quote", run[r].uri,
                                           run[r].acc, k, now)
          /\ run' = [run EXCEPT ![r] =
                       AwaitSub([@ EXCEPT !.count = @ + k], "getPostThread")]
    /\ UNCHANGED <<now, rlVars, session, remote, analyticsVars, syncState, profiles, posts, feed>>

\* the response of getPostThread(post.uri, 6, 0)
EngThreadResponse(r) ==
    /\ run[r].pc = "getPostThread"
    /\ \E replies \in ReplyPages(remote.uris) :
          run' = [run EXCEPT ![r] =
                    RecordOrSkip(NoCatch(@), ReplyEntries(replies), "recordReplies",
                                 EngLoop(NoCatch(@)))]
    /\ UNCHANGED <<now, rlVars, session, remote, analyticsVars, storeVars, feed>>

\* getPostThread() throws: catch, console.error, on to the next feed item
EngThreadFails(r) ==
    /\ run[r].pc = "getPostThread"
    /\ run' = [run EXCEPT ![r] = EngLoop(CatchItem(@))]
    /\ UNCHANGED <<now, rlVars, session, remote, analyticsVars, storeVars, feed>>

\* for (const reply of replies) await recordReplyReceived(...); count++
EngRecordReplies(r) ==
    /\ run[r].pc = "recordReplies"
    /\ \E k \in 0..Len(run[r].acc) :
          /\ engagements' = RecordReceived(engagements, "reply", run[r].uri,
                                           run[r].acc, k, now)
          /\ run' = [run EXCEPT ![r] = EngLoop([@ EXCEPT !.count = @ + k])]
    /\ UNCHANGED <<now, rlVars, session, remote, analyticsVars, syncState, profiles, posts, feed>>

(***************************************************************************)
(* Direct calls of the stage functions, time, specifications               *)
(***************************************************************************)
\* daysBack values the stage functions are called with
DaysBackValues == {IncrementalDaysBack, DefaultPostsWindow}

\* syncPosts(daysBack) called on its own, up to its first await
CallSyncPosts(r) ==
    /\ run[r].pc = "none"
    /\ NoOtherRun(r)
    /\ \E d \in DaysBackValues :
          run' = [run EXCEPT ![r] =
                    EnterStage([InitRun EXCEPT !.kind = "direct", !.daysBack = d], 3)]
    /\ UNCHANGED <<now, rlVars, session, remote, analyticsVars, storeVars, feed>>

\* syncEngagements(daysBack) called on its own, up to its first await
CallSyncEngagements(r) ==
    /\ run[r].pc = "none"
    /\ NoOtherRun(r)
    /\ \E d \in DaysBackValues :
          run' = [run EXCEPT ![r] =
                    EnterStage([InitRun EXCEPT !.kind = "direct", !.daysBack = d], 4)]
    /\ UNCHANGED <<now, rlVars, session, remote, analyticsVars, storeVars, feed>>

\* syncFollows() called on its own, up to its first await
CallSyncFollows(r) ==
    /\ run[r].pc = "none"
    /\ run' = [run EXCEPT ![r] = EnterStage([InitRun EXCEPT !.kind = "direct"], 1)]
    /\ UNCHANGED <<now, rlVars, session, remote, analyticsVars, storeVars, feed>>

\* syncFollowers() called on its own, up to its first await
CallSyncFollowers(r) ==
    /\ run[r].pc = "none"
    /\ run' = [run EXCEPT ![r] = EnterStage([InitRun EXCEPT !.kind = "direct"], 2)]
    /\ UNCHANGED <<now, rlVars, session, remote, analyticsVars, storeVars, feed>>

\* time passes while a run is awaiting
TickSync ==
    /\ now < SyncMaxTime
    /\ now' = now + 1
    /\ UNCHANGED <<rlVars, syncVars>>

(***************************************************************************)
(* Analytics: compute.ts and cache.ts                                      *)
(***************************************************************************)
\* the callers of getAnalytics(): loadInsights() calls it twice at once
NumReaders == 2
Readers == 1..NumReaders

\* a caller that has not called getAnalytics()
IdleReader ==
    [pc |-> "idle", now |-> 0, cached |-> <<>>, analytics |-> <<>>,
     result |-> <<>>, hit |-> FALSE, invalidated |-> FALSE, stale |-> FALSE]

\* no analytics function has been called
NoCalc == [op |-> "none"]

\* nobody has opened the dashboard: nothing recorded, nothing cached
IdleAnalytics ==
    /\ interactions = <<>>
    /\ cachedAnalytics = <<>>
    /\ reader = [c \in Readers |-> IdleReader]
    /\ calc = NoCalc

\* makeInteractionId(type, targetUri) of interactions.ts
MakeInteractionId(type, targetUri) == <<type, targetUri>>

\* createInteraction(type, targetUri, targetAuthorDid, yourPostUri)
CreateInteraction(type, targetUri, targetAuthorDid, yourPostUri, t) ==
    [type |-> type, targetUri |-> targetUri, targetAuthorDid |-> targetAuthorDid,
     createdAt |-> t, yourPostUri |-> yourPostUri]

\* a loop body that starts every post from a fresh UserContribution
FoldContributionFresh(contributions, post) ==
    LET existing == [did |-> post.authorDid, postCount |-> 0, repostCount |-> 0,
                     quoteCount |-> 0, replyCount |-> 0, totalCount |-> 0]
        counted == [existing EXCEPT
                       !.postCount = @ + (IF post.postType = "post" THEN 1 ELSE 0),
                       !.repostCount = @ + (IF post.postType = "repost" THEN 1 ELSE 0),
                       !.quoteCount = @ + (IF post.postType = "quote" THEN 1 ELSE 0),
                       !.replyCount = @ + (IF post.postType = "reply" THEN 1 ELSE 0)]
    IN  Put(contributions, post.authorDid,
            [counted EXCEPT !.totalCount = counted.postCount + counted.repostCount
                                           + counted.quoteCount + counted.replyCount])

\* one iteration of the loop of aggregateUserContributions():
\* existing = contributions.get(post.authorDid) || {...zeros}, the counter of
\* post.postType is incremented, totalCount is recomputed, contributions.set
FoldContribution(contributions, post) ==
    LET existing == IF post.authorDid \in DOMAIN contributions
                    THEN contributions[post.authorDid]
                    ELSE [did |-> post.authorDid, postCount |-> 0, repostCount |-> 0,
                          quoteCount |-> 0, replyCount |-> 0, totalCount |-> 0]
        counted == [existing EXCEPT
                       !.postCount = @ + (IF post.postType = "post" THEN 1 ELSE 0),
                       !.repostCount = @ + (IF post.postType = "repost" THEN 1 ELSE 0),
                       !.quoteCount = @ + (IF post.postType = "quote" THEN 1 ELSE 0),
                       !.replyCount = @ + (IF post.postType = "reply" THEN 1 ELSE 0)]
    IN  Put(contributions, post.authorDid,
            [counted EXCEPT !.totalCount = counted.postCount + counted.repostCount
                                           + counted.quoteCount + counted.replyCount])

\* for (const post of posts) over the posts in the order given
RECURSIVE AggregateOver(_)
AggregateOver(list) ==
    IF list = <<>> THEN <<>>
    ELSE FoldContribution(AggregateOver(SubSeq(list, 1, Len(list) - 1)),
                          list[Len(list)])

\* the orders in which getAllPosts() may list the stored posts
PostOrders ==
    LET n == Cardinality(DOMAIN posts)
    IN  {q \in [1..n -> DOMAIN posts] : \A i, j \in 1..n : i # j => q[i] # q[j]}

\* aggregateUserContributions(): the Map authorDid -> UserContribution
AggregateUserContributions ==
    LET authors == {posts[u].authorDid : u \in DOMAIN posts}
        Count(d, ty) ==
            Cardinality({u \in DOMAIN posts :
                            posts[u].authorDid = d /\ posts[u].postType = ty})
    IN  [d \in authors |->
            [did |-> d, postCount |-> Count(d, "post"),
             repostCount |-> Count(d, "repost"), quoteCount |-> Count(d, "quote"),
             replyCount |-> Count(d, "reply"),
             totalCount |-> Count(d, "post") + Count(d, "repost")
                            + Count(d, "quote") + Count(d, "reply")]]

\* the counting loops of getUserEngagement() over a store, whose records are
\* matched on the field whoField and counted by the field typeField
CountByType(store, whoField, typeField, targetDid, ty) ==
    Cardinality({k \in DOMAIN store :
                    /\ Read(store[k], whoField, UndefDid) = targetDid
                    /\ Read(store[k], typeField, UndefStr) = ty})

\* the UserEngagement built from the two stores read through the given fields
EngagementCounts(targetDid, yourWho, yourType, theirWho, theirType) ==
    LET yourLikesOfTheir == CountByType(interactions, yourWho, yourType, targetDid, "like")
        yourRepliesTo == CountByType(interactions, yourWho, yourType, targetDid, "reply")
        yourQuotesOf == CountByType(interactions, yourWho, yourType, targetDid, "quote")
        theirLikesOfYours == CountByType(engagements, theirWho, theirType, targetDid, "like")
        theirRepliesToYours == CountByType(engagements, theirWho, theirType, targetDid, "reply")
        theirQuotesOfYours == CountByType(engagements, theirWho, theirType, targetDid, "quote")
    IN  [did |-> targetDid,
         yourLikesOfTheir |-> yourLikesOfTheir, yourRepliesTo |-> yourRepliesTo,
         yourQuotesOf |-> yourQuotesOf, theirLikesOfYours |-> theirLikesOfYours,
         theirRepliesToYours |-> theirRepliesToYours,
         theirQuotesOfYours |-> theirQuotesOfYours,
         yourTotal |-> yourLikesOfTheir + yourRepliesTo + yourQuotesOf,
         theirTotal |-> theirLikesOfYours + theirRepliesToYours + theirQuotesOfYours]

\* a getUserEngagement() that reads the fields the schema names
GetUserEngagementBySchema(targetDid) ==
    EngagementCounts(targetDid, "targetAuthorDid", "type", "fromDid", "type")

\* getUserEngagement(targetDid, targetHandle): it reads interaction.targetDid,
\* interaction.interactionType, engagement.actorDid, engagement.engagementType
GetUserEngagement(targetDid) ==
    EngagementCounts(targetDid, "targetDid", "interactionType", "actorDid",
                     "engagementType")

\* scores are rationals num / den with den > 0
Ratio(n, d) == [num |-> n, den |-> d]
Less(x, y) == x.num * y.den < y.num * x.den
SameRatio(x, y) == x.num * y.den = y.num * x.den

\* a percentile that ranks by the contributors with a strictly lower count
VolumePercentileStrict(contributions, total) ==
    LET length == Cardinality(DOMAIN contributions)
        rank == Cardinality({d \in DOMAIN contributions :
                                contributions[d].totalCount >= total})
    IN  Ratio(length - rank, length)

\* sortedCounts = allCounts.sort((a, b) => b - a);
\* rank = sortedCounts.findIndex((c) => c <= total): the index of the first
\* count not above total in the descending counts is the number of counts
\* above it; volumePercentile / 100 = (sortedCounts.length - rank) / length
VolumePercentile(contributions, total) ==
    LET length == Cardinality(DOMAIN contributions)
        rank == Cardinality({d \in DOMAIN contributions :
                                contributions[d].totalCount > total})
    IN  Ratio(length - rank, length)

\* a penalty for every profile that is not mutual, stored or not
OneWayFollowOrUnknown(profile) ==
    profile = <<>> \/ ~profile[1].isMutual

\* profile && !profile.isMutual && profile.youFollow && !profile.followsYou
OneWayFollow(profile) ==
    /\ profile # <<>>
    /\ ~profile[1].isMutual
    /\ profile[1].youFollow
    /\ ~profile[1].followsYou

\* an isMutual that ignores the stored profile
StoredIsMutualDefault(profile) == FALSE

\* profile?.isMutual || false
StoredIsMutual(profile) ==
    IF profile = <<>> THEN FALSE ELSE profile[1].isMutual

\* computeNoiseScore(targetDid, targetHandle), given the UserEngagement its
\* getUserEngagement() call resolves to
NoiseScoreFrom(targetDid, engagement) ==
    LET contributions == AggregateUserContributions
        profile == GetProfile(targetDid)
        isMutual == StoredIsMutual(profile)
    IN  IF targetDid \notin DOMAIN contributions
        THEN [did |-> targetDid, score |-> Ratio(0, 1), volumePercentile |-> Ratio(0, 1),
              engagementRate |-> Ratio(0, 1), isMutual |-> isMutual, postCount |-> 0]
        ELSE LET total == contributions[targetDid].totalCount
                 volumePercentile == VolumePercentile(contributions, total)
                 yourTotal == engagement.yourTotal
                 \* (volumePercentile / 100) * (1 - yourTotal / total), total > 0
                 base == Ratio(volumePercentile.num * (total - yourTotal),
                               volumePercentile.den * total)
                 \* Math.min(1, score * 1.2)
                 boosted == IF 6 * base.num >= 5 * base.den
                            THEN Ratio(1, 1)
                            ELSE Ratio(6 * base.num, 5 * base.den)
             IN  [did |-> targetDid,
                  score |-> IF OneWayFollow(profile) THEN boosted ELSE base,
                  volumePercentile |-> volumePercentile,
                  engagementRate |-> Ratio(yourTotal, total), isMutual |-> isMutual,
                  postCount |-> total]

\* computeNoiseScore(targetDid, targetHandle)
ComputeNoiseScore(targetDid) == NoiseScoreFrom(targetDid, GetUserEngagement(targetDid))

\* a score that is your share of the mutual engagement
ReciprocityOfYours(yourTotal, theirTotal) ==
    LET combined == yourTotal + theirTotal
        min == IF yourTotal < theirTotal THEN yourTotal ELSE theirTotal
        max == IF yourTotal < theirTotal THEN theirTotal ELSE yourTotal
    IN  [score |-> IF combined > 0 THEN Ratio(yourTotal, combined) ELSE Ratio(0, 1),
         yourEngagement |-> yourTotal, theirEngagement |-> theirTotal,
         balanced |-> (max = 0 \/ 5 * min >= 4 * max)]

\* computeReciprocityScore() from the totals of getUserEngagement() on.
\* min / max >= 0.8 in doubles: the quotient is rounded to the nearest double,
\* which for min / max = 4/5 is the double 0.8 itself, and any smaller quotient
\* lies below it, so the test is 5 * min >= 4 * max
ReciprocityOf(yourTotal, theirTotal) ==
    LET combined == yourTotal + theirTotal
        min == IF yourTotal < theirTotal THEN yourTotal ELSE theirTotal
        max == IF yourTotal < theirTotal THEN theirTotal ELSE yourTotal
    IN  [score |-> IF combined > 0 THEN Ratio(theirTotal, combined) ELSE Ratio(0, 1),
         yourEngagement |-> yourTotal, theirEngagement |-> theirTotal,
         balanced |-> (max = 0 \/ 5 * min >= 4 * max)]

\* computeReciprocityScore(targetDid, targetHandle)
ComputeReciprocityScore(targetDid) ==
    LET engagement == GetUserEngagement(targetDid)
    IN  [did |-> targetDid] @@ ReciprocityOf(engagement.yourTotal, engagement.theirTotal)

\* the scores in the order they were pushed, without the sort
KeepPushOrder(byDid) ==
    LET dids == DOMAIN byDid
        First(d) == CHOOSE u \in DOMAIN posts :
                        /\ posts[u].authorDid = d
                        /\ \A v \in DOMAIN posts : posts[v].authorDid = d => u <= v
        order == CHOOSE q \in [1..Cardinality(dids) -> dids] :
                    \A i, j \in 1..Cardinality(dids) : i < j => First(q[i]) < First(q[j])
    IN  [k \in 1..Cardinality(dids) |-> byDid[order[k]]]

\* scores.sort((a, b) => b.score - a.score) over the scores pushed in the order
\* of the contributions Map: descending, equal scores in the order of each
\* author's first post in getAllPosts() (the sort is stable)
SortByScore(byDid) ==
    LET dids == DOMAIN byDid
        First(d) == CHOOSE u \in DOMAIN posts :
                        /\ posts[u].authorDid = d
                        /\ \A v \in DOMAIN posts : posts[v].authorDid = d => u <= v
        Before(a, b) == \/ Less(byDid[b].score, byDid[a].score)
                        \/ /\ SameRatio(byDid[a].score, byDid[b].score)
                           /\ First(a) < First(b)
        order == CHOOSE q \in [1..Cardinality(dids) -> dids] :
                    \A i, j \in 1..Cardinality(dids) : i < j => Before(q[i], q[j])
    IN  [k \in 1..Cardinality(dids) |-> byDid[order[k]]]

\* computeAllNoiseScores()
ComputeAllNoiseScores ==
    SortByScore([d \in DOMAIN AggregateUserContributions |-> ComputeNoiseScore(d)])

\* computeAllReciprocityScores()
ComputeAllReciprocityScores ==
    SortByScore([d \in DOMAIN AggregateUserContributions |-> ComputeReciprocityScore(d)])

\* CACHE_DURATION of cache.ts, scaled from 15 minutes
CACHE_DURATION == 2

CacheMaxTime == 12

\* Array.from(contributions.values()).reduce((sum, c) => sum + c.totalCount, 0)
RECURSIVE SumTotalCount(_, _)
SumTotalCount(contributions, dids) ==
    IF dids = {} THEN 0
    ELSE LET d == CHOOSE x \in dids : TRUE
         IN  contributions[d].totalCount + SumTotalCount(contributions, dids \ {d})

\* the CachedAnalytics object computeAndCacheAnalytics() builds at time t
BuildAnalytics(t) ==
    LET contributions == AggregateUserContributions
    IN  [noiseScoringTime |-> t, reciprocityScoringTime |-> t,
         noiseScores |-> ComputeAllNoiseScores,
         reciprocityScores |-> ComputeAllReciprocityScores,
         totalContributors |-> Cardinality(DOMAIN contributions),
         totalPosts |-> SumTotalCount(contributions, DOMAIN contributions)]

\* a put that writes the noise half of the analytics only
CurrentRowNoiseOnly(analytics) ==
    [id |-> "current", noiseScoringTime |-> analytics.noiseScoringTime,
     noiseScores |-> analytics.noiseScores]

\* { id: 'current', ...analytics }
CurrentRow(analytics) == [id |-> "current"] @@ analytics

\* a test that takes every stored snapshot
IsFreshAlways(cached, t) == cached # <<>>

\* cached && now - cached.noiseScoringTime < CACHE_DURATION
IsFresh(cached, t) ==
    /\ cached # <<>>
    /\ t - cached[1].noiseScoringTime < CACHE_DURATION

\* getAnalytics() is called, up to its first await
CallGetAnalytics(c) ==
    /\ reader[c].pc \in {"idle", "returned", "rejected"}
    /\ reader' = [reader EXCEPT ![c] = [IdleReader EXCEPT !.pc = "get"]]
    /\ UNCHANGED <<now, rlVars, session, remote, interactions, cachedAnalytics, calc,
                   storeVars, run, feed>>

\* store.get('current') is served
GetCached(c) ==
    /\ reader[c].pc = "get"
    /\ reader' = [reader EXCEPT ![c] = [@ EXCEPT !.pc = "check",
                                                !.cached = cachedAnalytics]]
    /\ UNCHANGED <<now, rlVars, session, remote, interactions, cachedAnalytics, calc,
                   storeVars, run, feed>>

\* the request succeeded: now = Date.now(), the test, and either return cached
\* or computeAndCacheAnalytics() up to its Promise.all
CheckCached(c) ==
    /\ reader[c].pc = "check"
    /\ reader' = [reader EXCEPT ![c] =
                    IF IsFresh(reader[c].cached, now)
                    THEN [@ EXCEPT !.pc = "returned", !.now = now, !.hit = TRUE,
                                   !.result = reader[c].cached]
                    ELSE [@ EXCEPT !.pc = "compute", !.now = now]]
    /\ UNCHANGED <<now, rlVars, session, remote, interactions, cachedAnalytics, calc,
                   storeVars, run, feed>>

\* Promise.all([computeAllNoiseScores(), computeAllReciprocityScores(),
\* aggregateUserContributions()]) resolved; the analytics object is built
ComputeDone(c) ==
    /\ reader[c].pc = "compute"
    /\ reader' = [reader EXCEPT ![c] =
                    [@ EXCEPT !.pc = "put",
                              !.analytics = <<BuildAnalytics(reader[c].now)>>]]
    /\ UNCHANGED <<now, rlVars, session, remote, interactions, cachedAnalytics, calc,
                   storeVars, run, feed>>

\* the results of the promises of Promise.all([...]) that have resolved so far
ResolvedParts(c) == IF reader[c].analytics = <<>> THEN <<>> ELSE reader[c].analytics[1]

\* one promise of the Promise.all resolved with the fields it gives; when it
\* is the last of the three, the analytics object is built and the put begins
PartResolved(c, part) ==
    LET parts == part @@ ResolvedParts(c)
    IN  reader' = [reader EXCEPT ![c] =
                     IF {"noiseScores", "reciprocityScores", "totalPosts"}
                           \subseteq DOMAIN parts
                     THEN [@ EXCEPT !.pc = "put",
                                    !.analytics =
                                       <<[noiseScoringTime |-> reader[c].now,
                                          reciprocityScoringTime |-> reader[c].now]
                                         @@ parts>>]
                     ELSE [@ EXCEPT !.analytics = <<parts>>]]

\* computeAllNoiseScores() resolved, over the store as it is now
NoiseScoresResolved(c) ==
    /\ reader[c].pc = "compute"
    /\ "noiseScores" \notin DOMAIN ResolvedParts(c)
    /\ PartResolved(c, [noiseScores |-> ComputeAllNoiseScores])
    /\ UNCHANGED <<now, rlVars, session, remote, interactions, cachedAnalytics, calc,
                   storeVars, run, feed>>

\* computeAllReciprocityScores() resolved, over the store as it is now
ReciprocityScoresResolved(c) ==
    /\ reader[c].pc = "compute"
    /\ "reciprocityScores" \notin DOMAIN ResolvedParts(c)
    /\ PartResolved(c, [reciprocityScores |-> ComputeAllReciprocityScores])
    /\ UNCHANGED <<now, rlVars, session, remote, interactions, cachedAnalytics, calc,
                   storeVars, run, feed>>

\* aggregateUserContributions() resolved, over the store as it is now;
\* totalContributors and totalPosts are functions of its result
ContributionsResolved(c) ==
    /\ reader[c].pc = "compute"
    /\ "totalPosts" \notin DOMAIN ResolvedParts(c)
    /\ LET contributions == AggregateUserContributions
       IN  PartResolved(c, [totalContributors |-> Cardinality(DOMAIN contributions),
                            totalPosts |-> SumTotalCount(contributions,
                                                         DOMAIN contributions)])
    /\ UNCHANGED <<now, rlVars, session, remote, interactions, cachedAnalytics, calc,
                   storeVars, run, feed>>

\* a sync run stores one more post: await savePosts([storedPost]) resolved
SavePost(u) ==
    /\ u \notin DOMAIN posts
    /\ posts' = Put(posts, u, StoredPostOf(PostAuthor(u), u, now))
    /\ UNCHANGED <<now, rlVars, session, remote, analyticsVars, syncState, profiles,
                   engagements, run, feed>>

\* store.put({ id: 'current', ...analytics }) succeeded; return analytics
PutAnalytics(c) ==
    /\ reader[c].pc = "put"
    /\ cachedAnalytics' = <<CurrentRow(reader[c].analytics[1])>>
    /\ reader' = [reader EXCEPT ![c] =
                    [@ EXCEPT !.pc = "returned", !.result = reader[c].analytics,
                              !.analytics = <<>>]]
    /\ UNCHANGED <<now, rlVars, session, remote, interactions, calc, storeVars, run,
                   feed>>

\* request.onerror of the get or of the put: getAnalytics() rejects
AnalyticsRequestFails(c) ==
    /\ reader[c].pc \in {"get", "put"}
    /\ reader' = [reader EXCEPT ![c] = [IdleReader EXCEPT !.pc = "rejected"]]
    /\ UNCHANGED <<now, rlVars, session, remote, interactions, cachedAnalytics, calc,
                   storeVars, run, feed>>

\* invalidateAnalyticsCache(): store.clear().  invalidated and stale are
\* history fields: the cache was cleared since the call began; it was cleared
\* after the call had read data of the store for a snapshot it has yet to put
InvalidateAnalyticsCache ==
    /\ cachedAnalytics' = <<>>
    /\ reader' = [c \in Readers |->
                    IF reader[c].pc = "idle" THEN reader[c]
                    ELSE [reader[c] EXCEPT
                             !.invalidated = TRUE,
                             !.stale = @ \/ (reader[c].pc \in {"compute", "put"}
                                             /\ reader[c].analytics # <<>>)]]
    /\ UNCHANGED <<now, rlVars, session, remote, interactions, calc, storeVars, run,
                   feed>>

\* time passes while the dashboard is open
TickCache ==
    /\ now < CacheMaxTime
    /\ now' = now + 1
    /\ UNCHANGED <<rlVars, syncVars>>

\* how many records the interactions store and the engagements store may hold
MaxRecords == 2

InteractionTypes == {"like", "reply", "quote", "repost"}

\* a post of the user: the reply or quote that recordReply/recordQuote are given
MyPostUri == 3

\* recordLike, recordReply, recordQuote, recordRepost:
\* saveInteraction(createInteraction(type, targetUri, targetAuthorDid, yourUri)).
\* The caller reads a result of an analytics function before the next write.
RecordInteraction(type, targetUri) ==
    LET id == MakeInteractionId(type, targetUri)
        yourUri == IF type \in {"reply", "quote"} THEN MyPostUri ELSE UndefUri
    IN  /\ id \in DOMAIN interactions \/ Cardinality(DOMAIN interactions) < MaxRecords
        /\ interactions' = Put(interactions, id,
                               CreateInteraction(type, targetUri, PostAuthor(targetUri),
                                                 yourUri, now))
        /\ calc' = NoCalc
        /\ UNCHANGED <<now, rlVars, session, remote, cachedAnalytics, reader,
                       storeVars, run, feed>>

\* recordLikeReceived, recordReplyReceived, recordQuoteReceived,
\* recordRepostReceived:
\* saveEngagement(createEngagement(type, targetUri, fromDid, fromHandle, theirUri))
RecordEngagementReceived(type, targetUri, fromDid) ==
    LET id == MakeEngagementId(type, fromDid, targetUri)
        theirUri == IF type \in {"reply", "quote"} THEN fromDid + 3 ELSE UndefUri
    IN  /\ id \in DOMAIN engagements \/ Cardinality(DOMAIN engagements) < MaxRecords
        /\ engagements' = Put(engagements, id,
                              CreateEngagement(type, targetUri, fromDid, theirUri, now))
        /\ calc' = NoCalc
        /\ UNCHANGED <<now, rlVars, session, remote, interactions, cachedAnalytics,
                       reader, syncState, profiles, posts, run, feed>>

\* getUserEngagement(did, handle) resolved
CallGetUserEngagement(d) ==
    /\ calc' = [op |-> "getUserEngagement", did |-> d, result |-> GetUserEngagement(d)]
    /\ UNCHANGED <<now, rlVars, session, remote, interactions, cachedAnalytics,
                   reader, storeVars, run, feed>>

\* computeNoiseScore(did, handle) resolved
CallComputeNoiseScore(d) ==
    /\ calc' = [op |-> "computeNoiseScore", did |-> d,
                engagement |-> GetUserEngagement(d), result |-> ComputeNoiseScore(d)]
    /\ UNCHANGED <<now, rlVars, session, remote, interactions, cachedAnalytics,
                   reader, storeVars, run, feed>>

\* computeAllNoiseScores() resolved
CallComputeAllNoiseScores ==
    /\ calc' = [op |-> "computeAllNoiseScores", did |-> UndefDid,
                result |-> ComputeAllNoiseScores]
    /\ UNCHANGED <<now, rlVars, session, remote, interactions, cachedAnalytics,
                   reader, storeVars, run, feed>>

\* aggregateUserContributions() resolved, getAllPosts() having listed the
\* posts in the given order
CallAggregateUserContributions(order) ==
    /\ calc' = [op |-> "aggregateUserContributions", did |-> UndefDid, order |-> order,
                result |-> AggregateOver([i \in DOMAIN order |-> posts[order[i]]])]
    /\ UNCHANGED <<now, rlVars, session, remote, interactions, cachedAnalytics,
                   reader, storeVars, run, feed>>

\* computeAllReciprocityScores() resolved
CallComputeAllReciprocityScores ==
    /\ calc' = [op |-> "computeAllReciprocityScores", did |-> UndefDid,
                result |-> ComputeAllReciprocityScores]
    /\ UNCHANGED <<now, rlVars, session, remote, interactions, cachedAnalytics,
                   reader, storeVars, run, feed>>

\* the largest total getUserEngagement() is taken to return
MaxTotal == 10

\* computeReciprocityScore() resumes with the engagement getUserEngagement()
\* resolved to
ApplyReciprocity ==
    /\ calc.op = "getUserEngagement"
    /\ calc' = [op |-> "computeReciprocityScore", did |-> calc.did,
                engagement |-> calc.result,
                result |-> [did |-> calc.did]
                           @@ ReciprocityOf(calc.result.yourTotal,
                                            calc.result.theirTotal)]
    /\ UNCHANGED <<now, rlVars, session, remote, interactions, cachedAnalytics,
                   reader, storeVars, run, feed>>

\* the largest yourTotal a scored UserEngagement is taken to carry
MaxYourTotal == 3

\* computeNoiseScore() resumes with the engagement getUserEngagement()
\* resolved to
ApplyNoise ==
    /\ calc.op = "getUserEngagement"
    /\ calc' = [op |-> "computeNoiseScore", did |-> calc.did,
                engagement |-> calc.result,
                result |-> NoiseScoreFrom(calc.did, calc.result)]
    /\ UNCHANGED <<now, rlVars, session, remote, interactions, cachedAnalytics,
                   reader, storeVars, run, feed>>

\* createProfile(did, handle, displayName, avatar, followsYou, youFollow)
CreateProfile(did, followsYou, youFollow, t) ==
    [did |-> did, followsYou |-> followsYou, youFollow |-> youFollow,
     isMutual |-> followsYou /\ youFollow, lastUpdated |-> t]

\* the follow flags an update of mergeProfile() may give
ProfileUpdates(did) ==
    {[did |-> did, followsYou |-> b] : b \in BOOLEAN}
    \cup {[did |-> did, youFollow |-> b] : b \in BOOLEAN}

\* saveProfile(createProfile(...)) resolved
SaveCreatedProfile(did, followsYou, youFollow) ==
    /\ profiles' = Put(profiles, did, CreateProfile(did, followsYou, youFollow, now))
    /\ UNCHANGED <<now, rlVars, session, remote, analyticsVars, syncState, posts,
                   engagements, run, feed>>

\* saveProfile(mergeProfile(await getProfile(did), update)) resolved
SaveMergedProfile(did, update) ==
    /\ profiles' = Put(profiles, did, MergeProfile(GetProfile(did), update, now))
    /\ UNCHANGED <<now, rlVars, session, remote, analyticsVars, syncState, posts,
                   engagements, run, feed>>

(***************************************************************************)
(* client.ts: what a request throws for the answer it gets                 *)
(***************************************************************************)
\* the HTTP statuses the Remote API is taken to answer with
Statuses == {200, 204, 301, 400, 401, 403, 404, 429, 500}

\* the body of an error answer as response.json().catch(() => ({})) gives it:
\* message and error, each possibly absent
ErrorBodies == [message : {UndefStr, "Token expired"}, error : {UndefStr, "ExpiredToken"}]

\* new ApiError(message, statusCode, error)
NewApiError(message, statusCode, error) ==
    [name |-> "ApiError", message |-> message, statusCode |-> statusCode,
     error |-> error]

\* new AuthError(message): super(message, 401, 'AuthRequired')
NewAuthError(message) ==
    [NewApiError(message, 401, "AuthRequired") EXCEPT !.name = "AuthError"]

\* errorData.message || fallback
Or(value, fallback) == IF value \in {UndefStr, ""} THEN fallback ELSE value

\* if (!response.ok) { ... } of apiRequest() (authenticated) and of
\* publicApiRequest(); NoError when the answer is 2xx
ThrownFor(authenticated, status, errorData) ==
    IF status >= 200 /\ status <= 299 THEN NoError
    ELSE IF authenticated /\ status = 401
    THEN NewAuthError(Or(errorData.message, "Authentication failed"))
    ELSE NewApiError(Or(errorData.message, "API error: " \o ToString(status)),
                     status, errorData.error)

\* fetch() resolved with the answer calc holds; the request returns or throws
ClassifyResponse ==
    /\ calc.op = "fetch"
    /\ calc' = [calc EXCEPT !.op = "settled",
                            !.thrown = ThrownFor(calc.authenticated, calc.status,
                                                 calc.errorData)]
    /\ UNCHANGED <<now, rlVars, session, remote, interactions, cachedAnalytics,
                   reader, storeVars, run, feed>>

\* a limiter nobody has called
IdleLimiter ==
    /\ requestTimes = <<>>
    /\ lastRequestTime = 0
    /\ waiter = [c \in Callers |-> IdleWaiter]
    /\ grants = <<>>

\* no run, no task
NoRuns ==
    /\ run = [r \in Runs |-> InitRun]
    /\ feed = [r \in Runs |-> [a \in Accounts |-> IdleTask]]

\* the stores of a fresh install: openDatabase() created them empty
EmptyStores ==
    /\ syncState = <<>>
    /\ profiles = <<>>
    /\ posts = <<>>
    /\ engagements = <<>>

\* the steps of the SyncState helpers inside a stage
SyncStateSteps(r) ==
    \/ StartSyncRead(r)
    \/ StartSyncPut(r)
    \/ CompleteSyncRead(r)
    \/ CompleteSyncUpdate(r)
    \/ CompleteSyncPut(r)
    \/ CompleteSyncFails(r)
    \/ FailSyncRead(r)
    \/ FailSyncPut(r)

FollowsSteps(r) ==
    \/ FollowsPageResponse(r)
    \/ FollowsPageFails(r)
    \/ FollowersPageResponse(r)
    \/ FollowersPageFails(r)
    \/ MergeFollowers(r)
    \/ SaveProfiles(r)
    \/ SaveProfilesFails(r)

PostsSteps(r) ==
    \/ GetAllProfilesDone(r)
    \/ GetAllProfilesFails(r)
    \/ \E a \in Accounts : FeedPageResponse(r, a)
    \/ \E a \in Accounts : FeedPageFails(r, a)
    \/ \E a \in Accounts : SavePostsDone(r, a)
    \/ \E a \in Accounts : SavePostsFails(r, a)
    \/ BatchSettled(r)

EngagementsSteps(r) ==
    \/ EngFeedResponse(r)
    \/ EngFeedFails(r)
    \/ EngLikesResponse(r)
    \/ EngLikesFails(r)
    \/ EngRecordLikes(r)
    \/ EngQuotesResponse(r)
    \/ EngQuotesFails(r)
    \/ EngRecordQuotes(r)
    \/ EngThreadResponse(r)
    \/ EngThreadFails(r)
    \/ EngRecordReplies(r)

\* the background worker: the alarms and the START_SYNC message start runs
\* over a fresh install; the dashboard may have been opened before, which
\* cached the analytics of the empty stores
Init ==
    /\ now = StartTime
    /\ IdleLimiter
    /\ session \in BOOLEAN
    /\ remote = [accounts |-> {1}, uris |-> {1}]
    /\ EmptyStores
    /\ NoRuns
    /\ interactions = <<>>
    /\ cachedAnalytics \in {<<>>, <<CurrentRow(BuildAnalytics(StartTime - 1))>>}
    /\ reader = [c \in Readers |-> IdleReader]
    /\ calc = NoCalc

Next ==
    \/ \E r \in Runs : RunFullSync(r)
    \/ \E r \in Runs : RunIncrementalSync(r)
    \/ \E r \in Runs : SyncStateSteps(r)
    \/ \E r \in Runs : FollowsSteps(r)
    \/ \E r \in Runs : PostsSteps(r)
    \/ \E r \in Runs : EngagementsSteps(r)
    \/ TickSync

Spec == Init /\ [][Next]_vars

\* the profiles store after earlier syncs: every account is followed or a
\* follower
KnownProfiles(followed, t) ==
    [d \in Accounts |->
        [did |-> d, youFollow |-> d \in followed, followsYou |-> d \notin followed,
         isMutual |-> FALSE, lastUpdated |-> t]]

\* syncPosts() on its own, over a populated profiles store
InitPosts ==
    /\ now = StartTime
    /\ IdleLimiter
    /\ session = TRUE
    /\ remote = [accounts |-> Accounts, uris |-> {2}]
    /\ syncState = <<>>
    /\ \E followed \in SUBSET Accounts : profiles = KnownProfiles(followed, StartTime)
    /\ posts = <<>>
    /\ engagements = <<>>
    /\ NoRuns
    /\ IdleAnalytics

NextPosts ==
    \/ \E r \in Runs : CallSyncPosts(r)
    \/ \E r \in Runs : SyncStateSteps(r)
    \/ \E r \in Runs : PostsSteps(r)
    \/ TickSync

SpecPosts == InitPosts /\ [][NextPosts]_vars

\* syncPosts() over one followed account whose feed pages hold two items
InitFeed ==
    /\ now = StartTime
    /\ IdleLimiter
    /\ session = TRUE
    /\ remote = [accounts |-> {1}, uris |-> {1, 2, 4}]
    /\ syncState = <<>>
    /\ profiles = KnownProfiles({1}, StartTime)
    /\ posts = <<>>
    /\ engagements = <<>>
    /\ NoRuns
    /\ IdleAnalytics

NextFeed ==
    \/ \E r \in Runs : CallSyncPosts(r)
    \/ \E r \in Runs : SyncStateSteps(r)
    \/ \E r \in Runs : PostsSteps(r)
    \/ \E r \in Runs, a \in Accounts : FeedLongPageResponse(r, a)
    \/ TickSync

SpecFeed == InitFeed /\ [][NextFeed]_vars

\* syncEngagements() on its own
InitEngagements ==
    /\ now = StartTime
    /\ IdleLimiter
    /\ session \in BOOLEAN
    /\ remote = [accounts |-> {1}, uris |-> {2, 3}]
    /\ EmptyStores
    /\ NoRuns
    /\ IdleAnalytics

NextEngagements ==
    \/ \E r \in Runs : CallSyncEngagements(r)
    \/ \E r \in Runs : SyncStateSteps(r)
    \/ \E r \in Runs : EngagementsSteps(r)
    \/ TickSync

SpecEngagements == InitEngagements /\ [][NextEngagements]_vars

\* the three fetch-all loops of client.ts, driven by the stages that call them
InitFetchAll ==
    /\ now = StartTime
    /\ IdleLimiter
    /\ session = TRUE
    /\ remote = [accounts |-> {1, 2}, uris |-> {3}]
    /\ EmptyStores
    /\ NoRuns
    /\ IdleAnalytics

NextFetchAll ==
    \/ \E r \in Runs : CallSyncFollows(r)
    \/ \E r \in Runs : CallSyncFollowers(r)
    \/ \E r \in Runs : CallSyncEngagements(r)
    \/ \E r \in Runs : SyncStateSteps(r)
    \/ \E r \in Runs : FollowsSteps(r)
    \/ \E r \in Runs : EngagementsSteps(r)
    \/ TickSync

\* every awaited page request settles: fetch() resolves or rejects
PageRequestsSettle ==
    /\ WF_vars(\E r \in Runs : FollowsPageResponse(r) \/ FollowsPageFails(r))
    /\ WF_vars(\E r \in Runs : FollowersPageResponse(r) \/ FollowersPageFails(r))
    /\ WF_vars(\E r \in Runs : EngLikesResponse(r) \/ EngLikesFails(r))

SpecFetchAll == InitFetchAll /\ [][NextFetchAll]_vars /\ PageRequestsSettle

\* the posts store after a sync of the feeds of the given uris
SyncedPosts(uris, t) == [u \in uris |-> StoredPostOf(PostAuthor(u), u, t)]

\* the dashboard over the stores a sync has filled
InitCache ==
    /\ now = StartTime
    /\ IdleLimiter
    /\ session = TRUE
    /\ remote = [accounts |-> Accounts, uris |-> {1, 2}]
    /\ syncState = <<>>
    /\ profiles = KnownProfiles({1}, StartTime)
    /\ posts = SyncedPosts({1, 2}, StartTime)
    /\ engagements = <<>>
    /\ NoRuns
    /\ IdleAnalytics

NextCache ==
    \/ \E c \in Readers : CallGetAnalytics(c)
    \/ \E c \in Readers : GetCached(c)
    \/ \E c \in Readers : CheckCached(c)
    \/ \E c \in Readers : ComputeDone(c)
    \/ \E c \in Readers : PutAnalytics(c)
    \/ \E c \in Readers : AnalyticsRequestFails(c)
    \/ InvalidateAnalyticsCache
    \/ TickCache

SpecCache == InitCache /\ [][NextCache]_vars

\* the dashboard recomputing while a sync run stores posts: the three
\* promises of computeAndCacheAnalytics() resolve one by one
InitRecompute ==
    /\ now = StartTime
    /\ IdleLimiter
    /\ session = TRUE
    /\ remote = [accounts |-> Accounts, uris |-> {1, 2, 4}]
    /\ syncState = <<>>
    /\ profiles = KnownProfiles({1, 2}, StartTime)
    /\ posts = SyncedPosts({1}, StartTime)
    /\ engagements = <<>>
    /\ NoRuns
    /\ IdleAnalytics

NextRecompute ==
    \/ \E c \in Readers : CallGetAnalytics(c)
    \/ \E c \in Readers : GetCached(c)
    \/ \E c \in Readers : CheckCached(c)
    \/ \E c \in Readers : NoiseScoresResolved(c)
    \/ \E c \in Readers : ReciprocityScoresResolved(c)
    \/ \E c \in Readers : ContributionsResolved(c)
    \/ \E c \in Readers : PutAnalytics(c)
    \/ \E c \in Readers : AnalyticsRequestFails(c)
    \/ \E u \in remote.uris : SavePost(u)
    \/ InvalidateAnalyticsCache

SpecRecompute == InitRecompute /\ [][NextRecompute]_vars

\* the analytics functions over stores a sync has filled, while interactions
\* and engagements are recorded
InitAnalytics ==
    /\ now = StartTime
    /\ IdleLimiter
    /\ session = TRUE
    /\ remote = [accounts |-> {1, 2}, uris |-> {1, 2, 4}]
    /\ syncState = <<>>
    /\ \E followed \in {{}, {1, 2}} : profiles = KnownProfiles(followed, StartTime)
    /\ \E synced \in {{1}, {1, 2}, {1, 2, 4}} : posts = SyncedPosts(synced, StartTime)
    /\ engagements = <<>>
    /\ NoRuns
    /\ IdleAnalytics

NextAnalytics ==
    \/ \E ty \in InteractionTypes, u \in {1} : RecordInteraction(ty, u)
    \/ \E ty \in InteractionTypes, d \in {1} : RecordEngagementReceived(ty, MyPostUri, d)
    \/ \E d \in remote.accounts : CallGetUserEngagement(d)
    \/ \E d \in remote.accounts : CallComputeNoiseScore(d)
    \/ CallComputeAllNoiseScores
    \/ TickSync

SpecAnalytics == InitAnalytics /\ [][NextAnalytics]_vars

\* computeReciprocityScore() as a function of the totals of the UserEngagement
\* it is given
InitReciprocity ==
    /\ now = StartTime
    /\ IdleLimiter
    /\ session = TRUE
    /\ remote = [accounts |-> {1}, uris |-> {}]
    /\ EmptyStores
    /\ NoRuns
    /\ interactions = <<>>
    /\ cachedAnalytics = <<>>
    /\ reader = [c \in Readers |-> IdleReader]
    /\ \E yourTotal \in 0..MaxTotal, theirTotal \in 0..MaxTotal :
          calc = [op |-> "getUserEngagement", did |-> 1,
                  result |-> [yourTotal |-> yourTotal, theirTotal |-> theirTotal]]

NextReciprocity == ApplyReciprocity

SpecReciprocity == InitReciprocity /\ [][NextReciprocity]_vars

\* two runs at once: the full-sync alarm, the incremental-sync alarm and the
\* START_SYNC message each start a run without waiting for the others
ProfileRuns == {1, 2}

\* syncFollows() and syncFollowers() runs side by side, over an empty profiles
\* store or the store of an earlier sync
InitProfiles ==
    /\ now = StartTime
    /\ IdleLimiter
    /\ session = TRUE
    /\ remote = [accounts |-> {1}, uris |-> {}]
    /\ syncState = <<>>
    /\ profiles \in {<<>>, KnownProfiles({1}, StartTime - 1)}
    /\ posts = <<>>
    /\ engagements = <<>>
    /\ run = [r \in ProfileRuns |-> InitRun]
    /\ feed = [r \in ProfileRuns |-> [a \in Accounts |-> IdleTask]]
    /\ IdleAnalytics

NextProfiles ==
    \/ \E r \in ProfileRuns : CallSyncFollows(r)
    \/ \E r \in ProfileRuns : CallSyncFollowers(r)
    \/ \E r \in ProfileRuns : SyncStateSteps(r)
    \/ \E r \in ProfileRuns : FollowsSteps(r)
    \/ \E d \in remote.accounts, followsYou, youFollow \in BOOLEAN :
          SaveCreatedProfile(d, followsYou, youFollow)
    \/ \E d \in remote.accounts : \E update \in ProfileUpdates(d) :
          SaveMergedProfile(d, update)
    \/ TickSync

SpecProfiles == InitProfiles /\ [][NextProfiles]_vars

\* a stage is called while no other call is in flight
NoRunInFlight == \A q \in ProfileRuns : run[q].pc \in {"none", "resolved", "rejected"}

\* a sequential series of syncFollows() and syncFollowers() calls: each call
\* starts after the one before it has returned or thrown
InitSequential ==
    /\ now = StartTime
    /\ IdleLimiter
    /\ session = TRUE
    /\ remote = [accounts |-> {1}, uris |-> {}]
    /\ EmptyStores
    /\ run = [r \in ProfileRuns |-> InitRun]
    /\ feed = [r \in ProfileRuns |-> [a \in Accounts |-> IdleTask]]
    /\ IdleAnalytics

NextSequential ==
    \/ \E r \in ProfileRuns : NoRunInFlight /\ CallSyncFollows(r)
    \/ \E r \in ProfileRuns : NoRunInFlight /\ CallSyncFollowers(r)
    \/ \E r \in ProfileRuns : SyncStateSteps(r)
    \/ \E r \in ProfileRuns : FollowsSteps(r)
    \/ TickSync

SpecSequential == InitSequential /\ [][NextSequential]_vars

\* one request of client.ts whose fetch() is about to resolve
InitClient ==
    /\ now = StartTime
    /\ IdleLimiter
    /\ session = TRUE
    /\ remote = [accounts |-> {}, uris |-> {}]
    /\ EmptyStores
    /\ NoRuns
    /\ interactions = <<>>
    /\ cachedAnalytics = <<>>
    /\ reader = [c \in Readers |-> IdleReader]
    /\ \E authenticated \in BOOLEAN, status \in Statuses, errorData \in ErrorBodies :
          calc = [op |-> "fetch", authenticated |-> authenticated, status |-> status,
                  errorData |-> errorData, thrown |-> NoError]

NextClient == ClassifyResponse

SpecClient == InitClient /\ [][NextClient]_vars

\* the scoring functions over the stores a sync may have filled: any set of
\* stored posts of two authors, and for each author no profile or a profile
\* with any pair of follow flags
ScoredUris == {1, 2, 4, 5}

InitScores ==
    /\ now = StartTime
    /\ IdleLimiter
    /\ session = TRUE
    /\ remote = [accounts |-> {1, 2}, uris |-> ScoredUris]
    /\ syncState = <<>>
    /\ \E known \in SUBSET {1, 2} :
          \E followsYou \in [known -> BOOLEAN], youFollow \in [known -> BOOLEAN] :
             profiles = [d \in known |->
                            CreateProfile(d, followsYou[d], youFollow[d], StartTime)]
    /\ \E synced \in SUBSET ScoredUris : posts = SyncedPosts(synced, StartTime)
    /\ engagements = <<>>
    /\ NoRuns
    /\ interactions = <<>>
    /\ cachedAnalytics = <<>>
    /\ reader = [c \in Readers |-> IdleReader]
    /\ \/ calc = NoCalc
       \/ \E d \in {1, 2}, yourTotal \in 0..MaxYourTotal :
             calc = [op |-> "getUserEngagement", did |-> d,
                     result |-> [yourTotal |-> yourTotal, theirTotal |-> 0]]

NextScores ==
    \/ ApplyNoise
    \/ \E order \in PostOrders : CallAggregateUserContributions(order)
    \/ \E ty \in {"like", "reply"} : RecordInteraction(ty, 1)
    \/ RecordEngagementReceived("like", MyPostUri, 1)
    \/ \E d \in remote.accounts : CallComputeNoiseScore(d)
    \/ CallComputeAllNoiseScores
    \/ CallComputeAllReciprocityScores

SpecScores == InitScores /\ [][NextScores]_vars

\* a new RateLimiter, and no sync activity
InitRL ==
    /\ now = StartTime
    /\ IdleLimiter
    /\ session = TRUE
    /\ remote = [accounts |-> {}, uris |-> {}]
    /\ EmptyStores
    /\ NoRuns
    /\ IdleAnalytics

NextRL ==
    \/ \E c \in Callers : CallWaitForSlot(c)
    \/ \E c \in Callers : WakeFromQuotaSleep(c)
    \/ \E c \in Callers : WakeFromDelaySleep(c)
    \/ TickRL

SpecRL == InitRL /\ [][NextRL]_vars

\* the rate limiter with time advancing and every fired timer's callback run
NextRLFair ==
    \/ NextRL
    \/ TickUntilWake

TimeAdvances == TickRL \/ TickUntilWake

SpecRLFair ==
    /\ InitRL
    /\ [][NextRLFair]_vars
    /\ WF_vars(TimeAdvances)
    /\ \A c \in Callers : WF_vars(WakeFromQuotaSleep(c))
    /\ \A c \in Callers : WF_vars(WakeFromDelaySleep(c))

\* grants recorded inside the trailing window (now - windowMs, now]
GrantsInWindow == {i \in 1..Len(grants) : now - grants[i] < windowMs}

\* C1: no trailing interval of length windowMs ever contains more than
\* maxRequests recorded grants, for any interleaving of concurrent callers.
QuotaNeverExceeded == Cardinality(GrantsInWindow) <= maxRequests

\* C2: any two grants recorded by waitForSlot() are at least minDelayMs apart.
MinSpacingRespected ==
    \A i, j \in 1..Len(grants) : i < j => grants[j] - grants[i] >= minDelayMs

(***************************************************************************)
(* Stage failures and the order of the stages (Spec)                       *)
(***************************************************************************)
\* the SyncState row of the stage run r is in or was in last
StageRow(r) == GetSyncState(StageKey(run[r].stage))

\* the stage of run r has thrown after `await startSync(key)` returned
ThrewAfterSyncing(r) ==
    /\ run[r].pc = "rejected"
    /\ run[r].raisedAt # "getCurrentDid"

NoFailureDropped ==
    \A r \in Runs :
        run[r].pc = "rejected" =>
            /\ StageRow(r) # <<>>
            /\ StageRow(r)[1].status = "error"
            /\ StageRow(r)[1].error = run[r].err.message

\* run r is a runFullSync() with every stage enabled
AllStagesRun(r) ==
    /\ run[r].kind = "full"
    /\ \A j \in 1..4 : Included(run[r], j)

\* stages whose row says 'syncing'
InProgress ==
    {j \in 1..4 : GetSyncState(StageKey(j)) # <<>>
                  /\ GetSyncState(StageKey(j))[1].status = "syncing"}

\* C5: in a full run with all stages enabled a stage has recorded 'syncing'
\* only if every stage before it has recorded it and is back to 'idle', in the
\* order follows, followers, timeline, my-posts; at most one stage is in
\* progress.
StagesInOrder ==
    \A r \in Runs :
        AllStagesRun(r) =>
            /\ \A j \in 1..4 :
                  GetSyncState(StageKey(j)) # <<>> =>
                      /\ j <= run[r].stage
                      /\ \A k \in 1..(j - 1) :
                            /\ GetSyncState(StageKey(k)) # <<>>
                            /\ GetSyncState(StageKey(k))[1].status = "idle"
            /\ Cardinality(InProgress) <= 1

\* the last stage of a full run is in progress after the three before it
LastStageInProgress ==
    \E r \in Runs :
        /\ AllStagesRun(r)
        /\ InProgress = {4}
        /\ run[r].called = SYNC_KEYS

\* C6: once a stage of a run has thrown, the run does nothing but record the
\* failure and reject with that error: no later stage has a SyncState row or
\* has issued an API request.
FailingStageAbortsRun ==
    \A r \in Runs :
        run[r].raised # NoError =>
            /\ run[r].pc \in {"failSync", "failSync.put", "rejected"}
            /\ run[r].pc = "rejected" => run[r].err = run[r].raised
            /\ \A j \in (run[r].stage + 1)..4 :
                  /\ GetSyncState(StageKey(j)) = <<>>
                  /\ StageKey(j) \notin run[r].called

\* a run has rejected in a stage that had an included stage after it
RunAbortedBeforeLaterStage ==
    \E r \in Runs :
        /\ run[r].pc = "rejected"
        /\ run[r].raised \in ApiFailures
        /\ \E j \in (run[r].stage + 1)..4 : Included(run[r], j)

(***************************************************************************)
(* syncPosts(): batches and per-account isolation (SpecPosts)              *)
(***************************************************************************)
\* accounts whose syncAuthorFeed() call has started and not settled
FeedsInFlight(r) == {a \in Accounts : feed[r][a].st \in {"getAuthorFeed", "savePosts"}}

\* C7: at most BATCH_SIZE syncAuthorFeed() calls are in flight; they all belong
\* to the current batch, every call of the batches before it has settled and no
\* call of the batches after it has started.
BoundedFanOut ==
    \A r \in Runs :
        /\ Cardinality(FeedsInFlight(r)) <= BATCH_SIZE
        /\ FeedsInFlight(r) # {} =>
              /\ run[r].pc = "batch"
              /\ FeedsInFlight(r) \subseteq Batch(run[r])
              /\ \A k \in 1..Len(run[r].following) :
                    /\ k <= run[r].i => Settled(feed[r][run[r].following[k]])
                    /\ k > run[r].i + BATCH_SIZE =>
                          feed[r][run[r].following[k]].st = "idle"

\* the second batch is in flight after a first batch of BATCH_SIZE calls, one
\* of them rejected
SecondBatchInFlight ==
    \E r \in Runs :
        /\ run[r].i = BATCH_SIZE
        /\ FeedsInFlight(r) # {}
        /\ \E k \in 1..BATCH_SIZE : feed[r][run[r].following[k]].st = "rejected"
        /\ \E k \in 1..BATCH_SIZE : feed[r][run[r].following[k]].st = "fulfilled"

\* the accounts syncPosts() fans out to
Followed == {d \in DOMAIN profiles : profiles[d].youFollow}

\* posts saved and counted by the calls of S that fulfilled
RECURSIVE PostsOfFulfilled(_, _)
PostsOfFulfilled(r, S) ==
    IF S = {} THEN 0
    ELSE LET a == CHOOSE x \in S : TRUE
         IN  (IF feed[r][a].st = "fulfilled" THEN feed[r][a].postsCount ELSE 0)
             + PostsOfFulfilled(r, S \ {a})

\* C8: only a stage-level call fails syncPosts(); once the batches are over
\* every followed account has been fetched to its end, fulfilled or rejected,
\* and the count is the sum of the counts of the fulfilled ones; the stage that
\* returns leaves status 'idle' and itemsProcessed equal to that count.
PerAccountIsolation ==
    \A r \in Runs :
        /\ run[r].raised # NoError => run[r].raisedAt \in {"getAllProfiles", "completeSync"}
        /\ run[r].pc \in {"completeSync", "completeSync.update", "completeSync.put",
                          "resolved"} =>
              /\ \A a \in Followed : Settled(feed[r][a])
              /\ run[r].count = PostsOfFulfilled(r, Followed)
        /\ run[r].pc = "resolved" =>
              /\ StageRow(r) # <<>>
              /\ StageRow(r)[1].status = "idle"
              /\ StageRow(r)[1].itemsProcessed = run[r].count

\* syncPosts() returned a positive count although one call rejected after it
\* had saved a post and another rejected in a later batch
ReturnedDespiteRejections ==
    \E r \in Runs :
        /\ run[r].pc = "resolved"
        /\ run[r].count > 0
        /\ \E a \in Followed : feed[r][a].st = "rejected" /\ feed[r][a].postsCount > 0
        /\ Cardinality({a \in Followed : feed[r][a].st = "rejected"}) >= 2
        /\ StageRow(r)[1].status = "idle"

(***************************************************************************)
(* syncEngagements(): item-level recovery (SpecEngagements)                *)
(***************************************************************************)
\* positions where a sub-resource of one own post is awaited
SubResourcePcs == {"getLikes", "getQuotes", "getPostThread"}

\* the position after a sub-resource whose fetch threw: the next sub-resource,
\* the next post, the next page or the end of the stage
AfterCaught(p) ==
    CASE p = "getLikes" -> {"getQuotes"}
      [] p = "getQuotes" -> {"getPostThread"}
      [] OTHER -> {"getLikes", "getAuthorFeed", "completeSync"}

\* the step of run r is the catch of a sub-resource fetch that threw
SubResourceCaught(r) ==
    /\ run[r].pc \in SubResourcePcs
    /\ run'[r] # run[r]
    /\ run'[r].subFailed

\* no error of a sub-resource reaches the caller of syncEngagements()
ItemFailuresUnseen ==
    \A r \in Runs :
        /\ run[r].raised # NoError =>
              run[r].raisedAt \in {"getCurrentDid", "getAuthorFeed", "completeSync"}
        /\ run[r].pc = "resolved" =>
              /\ StageRow(r) # <<>>
              /\ StageRow(r)[1].status = "idle"
              /\ StageRow(r)[1].itemsProcessed = run[r].count

\* a sub-resource fetch that throws adds nothing to the count or to the store
\* and the loop goes on
ItemFailureSkipped ==
    \A r \in Runs :
        SubResourceCaught(r) =>
            /\ run'[r].count = run[r].subCount
            /\ run'[r].count = run[r].count
            /\ engagements' = engagements
            /\ run'[r].pc \in AfterCaught(run[r].pc)
            /\ run'[r].raised = NoError

\* C9: a failure while fetching the likes, the quotes or the thread of one own
\* post contributes zero engagements, the loop goes on with the next
\* sub-resource or post, and the caller never sees it: the stage that returns
\* leaves status 'idle'.
ItemLevelRecovery == []ItemFailuresUnseen /\ [][ItemFailureSkipped]_vars

\* the stage returned with status 'idle' and engagements counted although the
\* last fetch, the thread of the last post, threw
ReturnedDespiteItemFailure ==
    \E r \in Runs :
        /\ run[r].pc = "resolved"
        /\ run[r].stage = 4
        /\ run[r].subFailed
        /\ run[r].count > 0
        /\ StageRow(r)[1].status = "idle"

(***************************************************************************)
(* Time-bounded pagination (Spec)                                          *)
(***************************************************************************)
\* positions of syncEngagements() where a request or a record is awaited
EngagementsBodyPcs ==
    SubResourcePcs \cup {"getAuthorFeed", "recordLikes", "recordQuotes", "recordReplies"}

\* C10: a syncAuthorFeed() call that met an item older than the cutoff has
\* returned, and neither a stored post nor a post about to be stored is older
\* than the cutoff; a syncEngagements() that met one requests nothing more,
\* scans no post older than the cutoff, and goes to completeSync: when it
\* returns the status is 'idle'.
TimeBoundedPagination ==
    \A r \in Runs :
        /\ \A a \in Accounts :
              /\ feed[r][a].sawOld => feed[r][a].st = "fulfilled"
              /\ feed[r][a].st = "savePosts" =>
                    feed[r][a].post.createdAt >= run[r].cutoffTime
        /\ run[r].stage = 3 =>
              \A u \in DOMAIN posts : posts[u].createdAt >= run[r].cutoffTime
        /\ run[r].stage = 4 =>
              /\ run[r].pc \in EngagementsBodyPcs \ {"getAuthorFeed"} =>
                    PostCreatedAt(run[r].uri) >= run[r].cutoffTime
              /\ run[r].pc \notin {"startSync", "startSync.put"} =>
                    \A id \in DOMAIN engagements :
                        PostCreatedAt(engagements[id].targetUri) >= run[r].cutoffTime
              /\ run[r].sawOld =>
                    /\ run[r].pc \notin EngagementsBodyPcs
                    /\ run[r].raised # NoError => run[r].raisedAt = "completeSync"
                    /\ run[r].pc = "resolved" =>
                          /\ StageRow(r) # <<>>
                          /\ StageRow(r)[1].status = "idle"

\* both stages stopped at an old item although the server had returned a
\* cursor, and the run returned
StoppedEarlyDespiteCursor ==
    \E r \in Runs :
        /\ \E a \in Accounts : feed[r][a].sawOld /\ feed[r][a].cursor
        /\ run[r].stage = 4
        /\ run[r].sawOld
        /\ run[r].pc = "resolved"
        /\ StageRow(r)[1].status = "idle"
\* the positions inside the do ... while (cursor) loops
FetchAllPcs == {"getFollows", "getFollowers", "getLikes"}

\* the positions that hold the list a fetch-all loop has just returned
FetchAllReturnedPcs == {"saveProfiles", "getProfile", "recordLikes"}

\* inside the loop every page so far carried a cursor; after it the last page
\* carried none and the list is as long as the pages together
FetchAllExact ==
    \A r \in Runs :
        /\ run[r].pc \in FetchAllPcs /\ run[r].fetched.pages > 0
              => run[r].fetched.cursor
        /\ run[r].pc \in FetchAllReturnedPcs
              => /\ ~run[r].fetched.cursor
                 /\ run[r].fetched.pages >= 1
                 /\ Len(run[r].acc) = run[r].fetched.items

\* C11: a fetch-all loop (getAllFollows, getAllFollowers, getAllLikes) whose
\* source eventually returns a page without a cursor ends after finitely many
\* page requests, ends at the first page without a cursor, and returns as many
\* items as its pages held together.
FetchAllTerminates ==
    /\ []FetchAllExact
    /\ \A r \in Runs : \A p \in FetchAllPcs :
           (run[r].pc = p) ~> (run[r].pc # p)

\* getAllFollows() returned two items fetched in two pages
FetchedTwoPages ==
    \E r \in Runs :
        /\ run[r].pc = "saveProfiles"
        /\ run[r].stage = 1
        /\ run[r].fetched.pages = 2
        /\ Len(run[r].acc) = 2

\* a call that returned the stored snapshot read it less than CACHE_DURATION
\* after the snapshot's noiseScoringTime; any other call returns a snapshot
\* stamped with the call's own Date.now()
ReturnedFreshOrNew ==
    \A c \in Readers :
        reader[c].pc = "returned" =>
            LET snapshot == reader[c].result[1]
            IN  IF reader[c].hit
                THEN /\ reader[c].cached # <<>>
                     /\ snapshot = reader[c].cached[1]
                     /\ reader[c].now - snapshot.noiseScoringTime < CACHE_DURATION
                ELSE /\ snapshot.noiseScoringTime = reader[c].now
                     /\ \/ reader[c].cached = <<>>
                        \/ reader[c].now - reader[c].cached[1].noiseScoringTime
                              >= CACHE_DURATION

\* the step that returns a newly computed snapshot stores that snapshot
NewSnapshotPersisted ==
    \A c \in Readers :
        reader[c].pc # "returned" /\ reader'[c].pc = "returned" /\ ~reader'[c].hit
            => /\ cachedAnalytics' # <<>>
               /\ \A f \in DOMAIN reader'[c].result[1] :
                      cachedAnalytics'[1][f] = reader'[c].result[1][f]

\* C12: getAnalytics() never returns a stored snapshot whose age, now minus
\* noiseScoringTime, has reached the 15-minute CACHE_DURATION; when the snapshot
\* is missing or expired it recomputes, stores the new snapshot and returns it.
FreshnessBound == []ReturnedFreshOrNew /\ [][NewSnapshotPersisted]_vars

\* a call found an expired snapshot and returned a newly computed one
ExpiredRecomputed ==
    \E c \in Readers :
        /\ reader[c].pc = "returned"
        /\ ~reader[c].hit
        /\ reader[c].cached # <<>>
        /\ reader[c].result[1].noiseScoringTime
              >= reader[c].cached[1].noiseScoringTime + CACHE_DURATION

\* C13: two getAnalytics() calls inside one CACHE_DURATION window with no
\* invalidateAnalyticsCache() in between, two concurrent calls on an empty
\* cache included, return the same snapshot with the same noiseScoringTime.
SameSnapshotInWindow ==
    \A c1, c2 \in Readers :
        LET s1 == reader[c1].result[1]
            s2 == reader[c2].result[1]
            older == IF s1.noiseScoringTime < s2.noiseScoringTime
                     THEN s1.noiseScoringTime ELSE s2.noiseScoringTime
            later == IF reader[c1].now < reader[c2].now
                     THEN reader[c2].now ELSE reader[c1].now
        IN  /\ reader[c1].pc = "returned" /\ reader[c2].pc = "returned"
            /\ ~reader[c1].invalidated /\ ~reader[c2].invalidated
            /\ later - older < CACHE_DURATION
            => /\ s1.noiseScoringTime = s2.noiseScoringTime
               /\ s1.noiseScores = s2.noiseScores
               /\ s1.reciprocityScores = s2.reciprocityScores

CachedAnalyticsFields ==
    {"id", "noiseScoringTime", "reciprocityScoringTime", "noiseScores",
     "reciprocityScores", "totalContributors", "totalPosts"}

\* the store is empty or holds one row with every field and one timestamp
SnapshotComplete ==
    \/ cachedAnalytics = <<>>
    \/ /\ Len(cachedAnalytics) = 1
       /\ DOMAIN cachedAnalytics[1] = CachedAnalyticsFields
       /\ cachedAnalytics[1].noiseScoringTime = cachedAnalytics[1].reciprocityScoringTime

\* a step that changes the store empties it or writes the whole object one
\* call of computeAndCacheAnalytics() built
SnapshotReplacedWhole ==
    cachedAnalytics' # cachedAnalytics =>
        \/ cachedAnalytics' = <<>>
        \/ \E c \in Readers :
              /\ reader[c].pc = "put"
              /\ cachedAnalytics' = <<[id |-> "current"] @@ reader[c].analytics[1]>>
              /\ reader[c].analytics[1] = BuildAnalytics(reader[c].now)

\* C15: the cachedAnalytics store holds either no snapshot or one complete
\* snapshot written by a single recomputation (noiseScoringTime equal to
\* reciprocityScoringTime), never a mixture or a partial snapshot.
AtomicSnapshotReplacement == []SnapshotComplete /\ [][SnapshotReplacedWhole]_vars

\* a second recomputation is about to replace the snapshot of the first
SnapshotAboutToBeReplaced ==
    /\ cachedAnalytics # <<>>
    /\ \E c \in Readers :
          /\ reader[c].pc = "put"
          /\ reader[c].analytics[1].noiseScoringTime
                # cachedAnalytics[1].noiseScoringTime

\* C14: when runFullSync() resolves, the cachedAnalytics store holds no
\* snapshot computed before the sync finished (the orchestrator invalidates
\* the cache after a successful full sync).  A snapshot stamped before the
\* lastSyncAt of a completed stage was computed before the sync finished.
CacheInvalidatedAfterSync ==
    \A r \in Runs :
        run[r].kind = "full" /\ run[r].pc = "resolved" =>
            \/ cachedAnalytics = <<>>
            \/ \A k \in DOMAIN syncState :
                  cachedAnalytics[1].noiseScoringTime >= syncState[k].lastSyncAt

\* 0 <= num / den <= 1
InUnitInterval(x) == x.den > 0 /\ 0 <= x.num /\ x.num <= x.den

TotalsCountStoredRecords ==
    calc.op = "getUserEngagement" =>
        /\ calc.result.yourTotal
              = Cardinality({k \in DOMAIN interactions :
                                interactions[k].targetAuthorDid = calc.did})
        /\ calc.result.theirTotal
              = Cardinality({k \in DOMAIN engagements :
                                engagements[k].fromDid = calc.did})

\* a step leaves every record there is as it is
RecordsKept(store, storeAfter) ==
    \A k \in DOMAIN store : k \in DOMAIN storeAfter /\ storeAfter[k] = store[k]

\* C19: recording the same Interaction (same type and targetUri) or the same
\* Engagement (same type, fromDid and targetUri) again, at any later time,
\* leaves the store as the first recording left it: the same number of
\* records and the same stored record.
IdempotentMerge ==
    [][/\ RecordsKept(interactions, interactions')
       /\ RecordsKept(engagements, engagements')]_vars

\* every stored profile has isMutual = followsYou and youFollow
MutualityHolds ==
    \A d \in DOMAIN profiles :
        profiles[d].isMutual = (profiles[d].followsYou /\ profiles[d].youFollow)

\* C20: after any sequence and interleaving of syncFollows() and
\* syncFollowers() runs, and of saved createProfile()/mergeProfile() results,
\* every stored profile has isMutual = (followsYou and youFollow), and no step
\* removes a stored profile.
ProfileMutuality ==
    /\ []MutualityHolds
    /\ [][DOMAIN profiles \subseteq DOMAIN profiles']_vars

\* syncFollowers() stored a mutual profile while another run was under way
MutualStoredByFollowers ==
    \E r, q \in ProfileRuns :
        /\ r # q
        /\ run[r].stage = 2 /\ run[r].pc = "completeSync"
        /\ run[q].pc \notin {"none", "resolved", "rejected"}
        /\ \E d \in DOMAIN profiles : profiles[d].isMutual

\* C21: every answer with HTTP 401, on the authenticated path (apiRequest) or
\* the public path (publicApiRequest), is raised as an AuthError; every other
\* non-2xx answer is raised as an ApiError with the status code, the message
\* and the error code.
FailureClassification ==
    calc.op = "settled" /\ ~(calc.status >= 200 /\ calc.status <= 299) =>
        IF calc.status = 401
        THEN calc.thrown.name = "AuthError"
        ELSE /\ calc.thrown.name = "ApiError"
             /\ calc.thrown.statusCode = calc.status
             /\ calc.errorData.message # UndefStr
                   => calc.thrown.message = calc.errorData.message
             /\ calc.thrown.error = calc.errorData.error

\* C22: an authentication failure (HTTP 401) of any API call of a sync run,
\* stage-level or per-item (one account's feed, one post's likes), ends the
\* run with that error: the run does not go on to return normally.
AuthFailureEndsRun ==
    \A r \in Runs :
        (\E a \in Accounts :
            /\ feed[r][a].st = "rejected"
            /\ feed[r][a].reason.message = "API error: 401")
        => run[r].pc # "resolved"

\* the status stored for a key, "none" when the key has no row
StatusOf(store, k) == IF k \in DOMAIN store THEN store[k].status ELSE "none"

\* a step that changes the status of a key starts it or ends it
StatusStep ==
    \A k \in DOMAIN syncState' :
        LET before == StatusOf(syncState, k)
            after == StatusOf(syncState', k)
        IN  before # after =>
               \/ before \in {"none", "idle", "error"} /\ after = "syncing"
               \/ before = "syncing" /\ after \in {"idle", "error"}

\* C23: for every stage key and every execution, runs started concurrently
\* included, each change of SyncState.status is (none, idle or error) to
\* syncing, syncing to idle, or syncing to error; status never becomes idle or
\* error from a status other than syncing.
StageStateMachine == [][StatusStep]_vars

\* C24: in every stage the write of status 'syncing' for the stage key is
\* completed before the first Remote API call of the stage is issued: from
\* that call until the stage writes its outcome, the stored status of the key
\* is 'syncing'.
VisibleStart ==
    \A r \in Runs :
        /\ run[r].pc \notin {"none", "resolved", "rejected"}
        /\ run[r].stage \in 1..4
        /\ StageKey(run[r].stage) \in run[r].called
        => /\ StageRow(r) # <<>>
           /\ StageRow(r)[1].status = "syncing"

\* the engagements stage is fetching the likes of a post
FetchingLikesWhileSyncing ==
    \E r \in Runs :
        /\ run[r].stage = 4
        /\ run[r].pc = "getLikes"
        /\ StageKey(4) \in run[r].called

\* a step in which a call of waitForSlot() returns records one grant at the
\* current clock value, and no other step records a grant
OneGrantPerReturn ==
    /\ (\E c \in Callers : waiter[c].pc # "idle" /\ waiter'[c].pc = "idle")
        => grants' = Append(grants, now)
    /\ grants' # grants
        => /\ grants' = Append(grants, now)
           /\ requestTimes'[Len(requestTimes')] = now
           /\ \A c \in Callers : waiter'[c].pc = "idle" \/ waiter'[c] = waiter[c]
           /\ Cardinality(InFlight) - Cardinality({c \in Callers : waiter'[c].pc # "idle"}) \in {0, 1}

\* C25: with maxRequests >= 1 and time advancing, every waitForSlot() call
\* eventually returns, for any number of concurrent waiters, and each
\* returned call has recorded exactly one grant.
WaitForSlotReturns ==
    /\ \A c \in Callers : (waiter[c].pc # "idle") ~> (waiter[c].pc = "idle")
    /\ [][OneGrantPerReturn]_vars

\* every explored call returned, all of them within one window length
AllCallsReturnedInOneWindow ==
    /\ Len(grants) = MaxCalls
    /\ InFlight = {}
    /\ grants[MaxCalls] - grants[1] <= windowMs

\* C26: runIncrementalSync() runs posts before engagements, the engagements
\* stage only after the posts stage succeeded, each with a lookback of one
\* day, under the SyncState keys runFullSync() uses for these stages.
IncrementalLikeFull ==
    \A r \in Runs :
        run[r].kind = "incr" =>
            /\ run[r].stage \in {3, 4}
            /\ run[r].called \subseteq {TIMELINE, MY_POSTS}
            /\ DOMAIN syncState \subseteq {TIMELINE, MY_POSTS}
            /\ (run[r].stage = 4 \/ MY_POSTS \in DOMAIN syncState) =>
                   /\ TIMELINE \in DOMAIN syncState
                   /\ syncState[TIMELINE].status = "idle"
            /\ run[r].cutoffTime # 0 =>
                   run[r].cutoffTime + IncrementalDaysBack * DayMs \in StartTime..now

\* an incremental run finished both of its stages
IncrementalRunResolved ==
    \E r \in Runs :
        /\ run[r].kind = "incr"
        /\ run[r].pc = "resolved"
        /\ MY_POSTS \in run[r].called
        /\ \A k \in {TIMELINE, MY_POSTS} :
              k \in DOMAIN syncState /\ syncState[k].status = "idle"

\* the number of contributors whose total count is at most the count of d
AtMostCountOf(d) ==
    Cardinality({e \in DOMAIN AggregateUserContributions :
                    AggregateUserContributions[e].totalCount
                        <= AggregateUserContributions[d].totalCount})

NoiseFormula ==
    calc.op = "computeNoiseScore" /\ calc.did \in DOMAIN AggregateUserContributions
    => LET total == AggregateUserContributions[calc.did].totalCount
           vp == calc.result.volumePercentile
           er == calc.result.engagementRate
           profile == GetProfile(calc.did)
           base == Ratio(vp.num * (er.den - er.num), vp.den * er.den)
           penalised == /\ profile # <<>>
                        /\ profile[1].youFollow
                        /\ ~profile[1].followsYou
       IN  /\ er.den > 0 /\ vp.den > 0
           /\ SameRatio(er, Ratio(calc.engagement.yourTotal, total))
           /\ penalised /\ 6 * base.num >= 5 * base.den
                 => SameRatio(calc.result.score, Ratio(1, 1))
           /\ penalised /\ 6 * base.num < 5 * base.den
                 => SameRatio(calc.result.score, Ratio(6 * base.num, 5 * base.den))
           /\ ~penalised => SameRatio(calc.result.score, base)

\* a contributor the user follows one way and has engaged with was scored
\* above volumePercentile x (1 - engagementRate), below the cap
PenalisedOneWayFollow ==
    /\ calc.op = "computeNoiseScore"
    /\ calc.did \in DOMAIN AggregateUserContributions
    /\ calc.engagement.yourTotal > 0
    /\ calc.did \in DOMAIN profiles
    /\ profiles[calc.did].youFollow /\ ~profiles[calc.did].followsYou
    /\ Less(Ratio(0, 1), calc.result.score)
    /\ Less(calc.result.score, Ratio(1, 1))

\* C29: computeNoiseScore() for a did without stored posts returns score,
\* volumePercentile, engagementRate and postCount 0, and isMutual as the
\* stored profile has it, false without a profile; for a contributor without
\* a stored profile it returns a score, with isMutual false.
GracefulDefaults ==
    calc.op = "computeNoiseScore" =>
        LET profile == GetProfile(calc.did)
            result == calc.result
        IN  /\ DOMAIN result = {"did", "score", "volumePercentile", "engagementRate",
                                "isMutual", "postCount"}
            /\ result.did = calc.did
            /\ result.isMutual = (profile # <<>> /\ profile[1].isMutual)
            /\ calc.did \notin DOMAIN AggregateUserContributions
                  => /\ SameRatio(result.score, Ratio(0, 1))
                     /\ SameRatio(result.volumePercentile, Ratio(0, 1))
                     /\ SameRatio(result.engagementRate, Ratio(0, 1))
                     /\ result.postCount = 0
            /\ calc.did \in DOMAIN AggregateUserContributions /\ profile = <<>>
                  => /\ result.score.den > 0
                     /\ result.postCount = AggregateUserContributions[calc.did].totalCount
                     /\ ~result.isMutual

\* a mutual follow without stored posts was scored
ScoredMutualWithoutPosts ==
    /\ calc.op = "computeNoiseScore"
    /\ calc.did \notin DOMAIN AggregateUserContributions
    /\ calc.did \in DOMAIN profiles
    /\ profiles[calc.did].isMutual
    /\ calc.result.isMutual
    /\ calc.result.postCount = 0

\* the position in getAllPosts() of the first post of author d
FirstAppearance(d) ==
    CHOOSE u \in DOMAIN posts :
        /\ posts[u].authorDid = d
        /\ \A v \in DOMAIN posts : posts[v].authorDid = d => u <= v

\* C30: computeAllNoiseScores() and computeAllReciprocityScores() return one
\* entry per distinct author of a stored post, in non-increasing order of
\* score, entries of equal score in the order in which their authors first
\* appear among the posts.
AllScoresSorted ==
    calc.op \in {"computeAllNoiseScores", "computeAllReciprocityScores"} =>
        LET result == calc.result
            authors == {posts[u].authorDid : u \in DOMAIN posts}
        IN  /\ DOMAIN result = 1..Cardinality(authors)
            /\ {result[i].did : i \in DOMAIN result} = authors
            /\ \A i, j \in DOMAIN result :
                  i < j =>
                     /\ ~Less(result[i].score, result[j].score)
                     /\ SameRatio(result[i].score, result[j].score)
                           => FirstAppearance(result[i].did)
                                 < FirstAppearance(result[j].did)

\* the sort moved a later author with a higher noise score to the front
LaterAuthorSortedFirst ==
    /\ calc.op = "computeAllNoiseScores"
    /\ Len(calc.result) = 2
    /\ Less(calc.result[2].score, calc.result[1].score)
    /\ FirstAppearance(calc.result[2].did) < FirstAppearance(calc.result[1].did)

\* C31: aggregateUserContributions() gives the same per-author counts for
\* every order of the stored posts; for each author postCount + repostCount +
\* quoteCount + replyCount = totalCount = the number of stored posts of the
\* author, and the totalCounts add up to the number of stored posts.
OrderIndependentFold ==
    calc.op = "aggregateUserContributions" =>
        LET result == calc.result
            PostsOf(d) == {u \in DOMAIN posts : posts[u].authorDid = d}
        IN  /\ DOMAIN result = {posts[u].authorDid : u \in DOMAIN posts}
            /\ \A d \in DOMAIN result :
                  /\ result[d].totalCount = Cardinality(PostsOf(d))
                  /\ result[d].totalCount = result[d].postCount + result[d].repostCount
                                             + result[d].quoteCount + result[d].replyCount
                  /\ \A ty \in {"post", "repost", "quote", "reply"} :
                        result[d][ty \o "Count"] =
                           Cardinality({u \in PostsOf(d) : posts[u].postType = ty})
            /\ SumTotalCount(result, DOMAIN result) = Cardinality(DOMAIN posts)
            /\ \A other \in PostOrders :
                  AggregateOver([i \in DOMAIN other |-> posts[other[i]]]) = result

\* the posts of an author with two posts were listed last post first
AggregatedInReverse ==
    /\ calc.op = "aggregateUserContributions"
    /\ Len(calc.order) >= 3
    /\ \A i, j \in DOMAIN calc.order : i < j => calc.order[i] > calc.order[j]
    /\ \E d \in DOMAIN calc.result : calc.result[d].totalCount = 2

\* C32: once a post with a given uri is stored, no later step of a sync run
\* changes its stored record.
PostsWrittenOnce ==
    [][\A u \in DOMAIN posts : posts'[u] = posts[u]]_vars

\* C33: the per-account fetches of one syncPosts() batch never write the same
\* storage key with different values: two fetches that are about to save a
\* post under the same uri save the same record.
BatchWritesAgree ==
    \A r \in Runs :
        \A a, b \in Accounts :
            /\ feed[r][a].st = "savePosts"
            /\ feed[r][b].st = "savePosts"
            /\ feed[r][a].post.uri = feed[r][b].post.uri
            => feed[r][a].post = feed[r][b].post

\* the step in which run r stores its profile list keeps, for every stored
\* profile, the flag that the stage of r does not report
OtherFlagKept(r) ==
    run[r].pc = "saveProfiles" /\ run'[r].pc # "saveProfiles" =>
        \A d \in DOMAIN profiles :
            /\ run[r].stage = 1 => profiles'[d].followsYou = profiles[d].followsYou
            /\ run[r].stage = 2 => profiles'[d].youFollow = profiles[d].youFollow

\* C34: a syncFollows() run sets youFollow and does not change the followsYou
\* flag of a profile that is already stored; a syncFollowers() run sets
\* followsYou and preserves the stored youFollow.
FollowFlagsIndependent ==
    [][\A r \in DOMAIN run : OtherFlagKept(r)]_vars

\* the largest of a set of times, 0 for the empty set
Latest(times) == IF times = {} THEN 0 ELSE CHOOSE t \in times : \A x \in times : x <= t

\* the fields of the row of key k that only completeSync() may change
Progress(store, k) ==
    IF k \in DOMAIN store
    THEN [lastSyncAt |-> store[k].lastSyncAt, itemsProcessed |-> store[k].itemsProcessed,
          lastCursor |-> store[k].lastCursor]
    ELSE [lastSyncAt |-> 0, itemsProcessed |-> 0, lastCursor |-> UndefStr]

\* startSync and failSync leave lastSyncAt, itemsProcessed and lastCursor
\* alone; completeSync stores its Date.now(), the count of the run, no error
SyncStateFrame ==
    \A r \in DOMAIN run :
        LET k == StageKey(run[r].stage)
        IN  /\ run[r].pc \in {"startSync.put", "failSync.put"} /\ run'[r] # run[r]
                => Progress(syncState', k) = Progress(syncState, k)
            /\ run[r].pc = "completeSync.put" /\ syncState' # syncState
                => /\ syncState'[k].lastSyncAt = run[r].upd.lastSyncAt
                   /\ syncState'[k].lastSyncAt \in StartTime..now
                   /\ syncState'[k].itemsProcessed = run[r].count
                   /\ syncState'[k].error = UndefStr
                   /\ syncState'[k].status = "idle"

\* lastSyncAt of every stage key is the completion time of the most recent
\* successful run of the stage, 0 if there is none
LastSyncAtIsLatestSuccess ==
    \A k \in {FOLLOWS, FOLLOWERS} :
        Progress(syncState, k).lastSyncAt =
            Latest({run[r].doneAt : r \in {q \in DOMAIN run :
                                               /\ run[q].pc = "resolved"
                                               /\ StageKey(run[q].stage) = k}})

RecordedSyncing(r) ==
    /\ run[r].stage \in 1..4
    /\ run[r].pc \notin {"none", "resolved", "rejected", "startSync", "startSync.put"}

\* C36: whenever a run of a stage has recorded 'syncing' and has not yet
\* returned or thrown, the SyncState of the stage key has status 'syncing',
\* also when runs of the same stage overlap in time.
InFlightRunsVisible ==
    \A r \in DOMAIN run :
        RecordedSyncing(r) =>
            /\ StageKey(run[r].stage) \in DOMAIN syncState
            /\ syncState[StageKey(run[r].stage)].status = "syncing"

\* C37: for every stage key, under any interleaving of the startSync,
\* completeSync and failSync calls of overlapping runs, the stored lastSyncAt
\* never decreases.
LastSyncAtMonotone ==
    [][\A k \in {FOLLOWS, FOLLOWERS, TIMELINE, MY_POSTS} :
          Progress(syncState', k).lastSyncAt >= Progress(syncState, k).lastSyncAt]_vars

\* the sum of postCount over a list of noise scores
RECURSIVE SumPostCount(_)
SumPostCount(scores) ==
    IF scores = <<>> THEN 0 ELSE Head(scores).postCount + SumPostCount(Tail(scores))

\* C38: every snapshot persisted by computeAndCacheAnalytics() is computed
\* from one state of the store: totalContributors = number of noiseScores =
\* number of reciprocityScores and totalPosts = the sum of postCount over
\* noiseScores, also when a sync run writes posts during the recomputation.
SnapshotConsistent ==
    cachedAnalytics # <<>> =>
        LET a == cachedAnalytics[1]
        IN  /\ a.totalContributors = Len(a.noiseScores)
            /\ a.totalContributors = Len(a.reciprocityScores)
            /\ a.totalPosts = SumPostCount(a.noiseScores)

\* C39: once invalidateAnalyticsCache() has resolved, no getAnalytics() call
\* started afterwards returns a snapshot whose data was read from the store
\* before the invalidation, also when a recomputation that started before
\* the invalidation persists its result after it.
InvalidationNotUndone ==
    \A a, b \in Readers :
        ~ /\ a # b
          /\ reader[a].pc = "returned" /\ ~reader[a].hit /\ reader[a].stale
          /\ reader[b].pc = "returned" /\ reader[b].hit /\ ~reader[b].invalidated
          /\ reader[b].result = <<CurrentRow(reader[a].result[1])>>

\* C40: for every page syncAuthorFeed() fetched, every item of the page that
\* was created at or after the cutoff is stored, whatever the order of the
\* items inside the page: the early stop only discards items older than the
\* cutoff.
CompleteInsideWindow ==
    \A r \in Runs :
        \A a \in Accounts :
            \A i \in DOMAIN feed[r][a].dropped :
                PostCreatedAt(feed[r][a].dropped[i]) < run[r].cutoffTime

====
